---------------------------- MODULE Spec2Model ----------------------------
(***************************************************************************)
(* Model of glfw_input::Handler<Child> (glfw_input.h, glfw_input_impl.h):  *)
(* the GLFW callback handlers, the event lists, the key-press tables and   *)
(* the rolling device state of glfw_input::State.                          *)
(*                                                                         *)
(* Integer widths.  TLC's integers are 32-bit, while State::event_index    *)
(* and the key-press tables hold uint64_t values.  A uint64_t is therefore *)
(* a tuple of four 16-bit limbs, least significant first, and every        *)
(* conversion the code performs (uint64_t -> int64_t -> int, int32_t ->    *)
(* size_t) is computed on the limbs.                                       *)
(*                                                                         *)
(* Doubles.  Cursor coordinates are modelled by integers (doubles whose    *)
(* differences are exact) and kDoubleInf by a value outside the range of   *)
(* the coordinates the windowing system delivers.                          *)
(***************************************************************************)
EXTENDS Integers, Sequences, FiniteSets

(***************************************************************************)
(* GLFW constants (GLFW/glfw3.h), under the names the source uses.         *)
(***************************************************************************)
GLFW_RELEASE == 0
GLFW_PRESS == 1
GLFW_REPEAT == 2

GLFW_KEY_UNKNOWN == -1
GLFW_KEY_A == 65
GLFW_KEY_D == 68
GLFW_KEY_CAPS_LOCK == 280
GLFW_KEY_NUM_LOCK == 282
GLFW_KEY_LEFT_SHIFT == 340
GLFW_KEY_LEFT_CONTROL == 341
GLFW_KEY_LEFT_ALT == 342
GLFW_KEY_LEFT_SUPER == 343
GLFW_KEY_RIGHT_SHIFT == 344
GLFW_KEY_RIGHT_CONTROL == 345
GLFW_KEY_RIGHT_ALT == 346
GLFW_KEY_RIGHT_SUPER == 347
GLFW_KEY_LAST == 348

GLFW_MOD_SHIFT == 1
GLFW_MOD_CONTROL == 2
GLFW_MOD_ALT == 4
GLFW_MOD_SUPER == 8
GLFW_MOD_CAPS_LOCK == 16
GLFW_MOD_NUM_LOCK == 32

GLFW_MOUSE_BUTTON_LEFT == 0
GLFW_MOUSE_BUTTON_RIGHT == 1

\* Event::k... type tags.
kFocus == 1
kEnter == 2
kCursorPos == 4
kMouseButton == 8
kScroll == 16
kKey == 32
kChar == 64

\* std::numeric_limits<double>::infinity(): no cursor coordinate equals it.
kDoubleInf == 1000000

(***************************************************************************)
(* Bounds of the model.                                                    *)
(***************************************************************************)
\* Handler operations (callbacks and ClearEvents calls) in one run of each
\* specification.
MaxOps == 3
MaxKeyOps == 4
MaxMouseOps == 4
MaxRangeOps == 3
MaxCaptureOps == 3
MaxOrderOps == 3
MaxUiOps == 3
MaxScissorOps == 3
MaxAppOps == 4
MaxPollOps == 6
MaxModOps == 3
MaxMaskOps == 3
MaxBatchOps == 3
MaxEngineSide == 17
MaxAtlases == 1
MaxNoOpOps == 3
MaxRepeatOps == 3
MaxDemoPasses == 3
MaxDemoCalls == 4

(***************************************************************************)
(* uint64_t as four 16-bit limbs, least significant first.                 *)
(***************************************************************************)
LimbBase == 2^16

U64Zero == <<0, 0, 0, 0>>

\* The uint64_t of a small natural number n < 2^31.
U64FromNat(n) == <<n % LimbBase, n \div LimbBase, 0, 0>>

\* u + n modulo 2^64, for a natural number n < 2^30.
U64AddNat(u, n) ==
  LET s1 == u[1] + (n % LimbBase)
      s2 == u[2] + (n \div LimbBase) + (s1 \div LimbBase)
      s3 == u[3] + (s2 \div LimbBase)
      s4 == u[4] + (s3 \div LimbBase)
  IN  <<s1 % LimbBase, s2 % LimbBase, s3 % LimbBase, s4 % LimbBase>>

\* a < b as unsigned 64-bit numbers.
U64Less(a, b) ==
  \/ a[4] < b[4]
  \/ a[4] = b[4] /\ a[3] < b[3]
  \/ a[4] = b[4] /\ a[3] = b[3] /\ a[2] < b[2]
  \/ a[4] = b[4] /\ a[3] = b[3] /\ a[2] = b[2] /\ a[1] < b[1]

\* Conversion of a 64-bit value to int: the low 32 bits, two's complement.
Int64ToInt(u) ==
  (IF u[2] >= LimbBase \div 2 THEN u[2] - LimbBase ELSE u[2]) * LimbBase + u[1]

\* Conversion of an integral value to bool: nonzero.
ToBool(u) == u # U64Zero

(***************************************************************************)
(* Bit masks: MouseButtonMask::value and ModKeyMask::value are ints.       *)
(***************************************************************************)
RECURSIVE BitAnd(_, _)
BitAnd(a, b) ==
  IF a = 0 \/ b = 0 THEN 0
  ELSE (IF a % 2 = 1 /\ b % 2 = 1 THEN 1 ELSE 0) + 2 * BitAnd(a \div 2, b \div 2)

RECURSIVE BitOr(_, _)
BitOr(a, b) ==
  IF a = 0 THEN b
  ELSE IF b = 0 THEN a
  ELSE (IF a % 2 = 1 \/ b % 2 = 1 THEN 1 ELSE 0) + 2 * BitOr(a \div 2, b \div 2)

RECURSIVE BitAndNot(_, _)
BitAndNot(a, b) ==
  IF a = 0 THEN 0
  ELSE (IF a % 2 = 1 /\ b % 2 = 0 THEN 1 ELSE 0) + 2 * BitAndNot(a \div 2, b \div 2)

HasBits(mask, bits) == BitAnd(mask, bits) = bits
SetBits(mask, bits) == BitOr(mask, bits)
ClearBits(mask, bits) == BitAndNot(mask, bits)

ButtonToBits(glfw_mouse_button) == 2^glfw_mouse_button
HasGlfwButton(mask, glfw_mouse_button) ==
  HasBits(mask, ButtonToBits(glfw_mouse_button))

(***************************************************************************)
(* KeyboardState.  pressed_event_index_ is a vector of KeyTableSize        *)
(* uint64_t, all 0 at construction.  It is held sparsely: a function from  *)
(* the keys whose entry is nonzero to that entry; every other entry of the *)
(* vector is 0.                                                            *)
(***************************************************************************)
KeyTableSize == GLFW_KEY_LAST + 1

KeyboardState == [k \in {} |-> U64Zero]

\* `key < pressed_event_index_.size()`: the int32_t key is converted to
\* size_t, so a negative key becomes key + 2^64 and compares above the size.
InTable_Signed(key) == key < KeyTableSize
InTable(key) == key >= 0 /\ key < KeyTableSize

PressedEventIndex(table, key) ==
  IF InTable(key)
    THEN (IF key \in DOMAIN table THEN table[key] ELSE U64Zero)
    ELSE U64Zero

IsPressed(table, key) == ToBool(PressedEventIndex(table, key))

SetKeyEventIndex(table, key, event_index) ==
  IF InTable(key)
    THEN (IF event_index = U64Zero
            THEN [k \in (DOMAIN table) \ {key} |-> table[k]]
            ELSE [k \in (DOMAIN table) \cup {key} |->
                    IF k = key THEN event_index ELSE table[k]])
    ELSE table

\* Axis narrows both 64-bit indices to int before comparing them.
Axis_NoTie(table, key_minus, key_plus) ==
  LET state_minus == Int64ToInt(PressedEventIndex(table, key_minus))
      state_plus == Int64ToInt(PressedEventIndex(table, key_plus))
  IN  IF state_minus > state_plus THEN -1 ELSE 1
Axis(table, key_minus, key_plus) ==
  LET state_minus == Int64ToInt(PressedEventIndex(table, key_minus))
      state_plus == Int64ToInt(PressedEventIndex(table, key_plus))
  IN  IF state_minus > state_plus THEN -1
      ELSE IF state_plus > state_minus THEN 1
      ELSE 0

(***************************************************************************)
(* Inputs of the callbacks.  The child handler (NoOpHandler, ToImGui, ...) *)
(* is outside the Handler: each callback calls it first and its result,    *)
(* child_wants_capture, is an input of the step.                           *)
(***************************************************************************)
Windows == {"window"}
FocusValues == {0, 1}
EnterValues == {0, 1}
CursorPositions == {<<10, 20>>, <<13, 24>>}
MouseButtons == {GLFW_MOUSE_BUTTON_LEFT, GLFW_MOUSE_BUTTON_RIGHT}
ButtonActions == {GLFW_RELEASE, GLFW_PRESS}
ScrollOffsets == {<<0, 1>>}
InputKeys == {GLFW_KEY_A, GLFW_KEY_D, GLFW_KEY_LEFT_SHIFT, GLFW_KEY_UNKNOWN}
KeyActions == {GLFW_RELEASE, GLFW_PRESS, GLFW_REPEAT}
Scancodes == {38}
ModsArgs == {0, GLFW_MOD_SHIFT}
CharValues == {97}

\* Keys the queries (PressedEventIndex, IsPressed, Axis) are asked about.
QueryKeys == InputKeys \cup {GLFW_KEY_RIGHT_SHIFT, GLFW_KEY_LAST, GLFW_KEY_LAST + 1}

\* Values of event_index a Handler starts a run with: 0 right after
\* construction, and the values a long-running Handler has reached just
\* before event_index crosses 2^31 and 2^32 (with both event lists cleared
\* and no key held).  2^64 is out of reach (glfw_input.h:199-200).
StartIndexes ==
  { U64Zero,
    <<LimbBase - 2, (LimbBase \div 2) - 1, 0, 0>>,
    <<LimbBase - 2, LimbBase - 1, 0, 0>> }

(***************************************************************************)
(* State: the fields of glfw_input::State, then history variables that     *)
(* record what was called (only the properties read them).                 *)
(***************************************************************************)
VARIABLES
  event_index,      \* State::event_index (uint64_t)
  events,           \* State::events
  keys,             \* State::keys
  all_events,       \* State::all_events
  all_keys,         \* State::all_keys
  mod_keys,         \* State::mod_keys.value
  mouse_x,          \* State::mouse_x
  mouse_y,          \* State::mouse_y
  mouse_buttons,    \* State::mouse_buttons.value
  start_index,      \* history: event_index when the run started
  calls,            \* history: the operations called so far, in order, each
                    \* with its arguments, the child's result and the
                    \* value returned
  child_calls,      \* history: the calls made to the child handler, in
                    \* order, each with its arguments and the child's result
                    \* (recorded by the runs that take a handler in two
                    \* steps, SpecOrder)
  ui_engine_,          \* Ui::engine_ is not null
  font_atlas_,         \* Ui::font_atlas_ (0: nullptr, else the n-th texture)
  vertex_buffer_,      \* Ui::vertex_buffer_ (id 0: nullptr) and its vertex count
  index_buffer_,       \* Ui::index_buffer_ (id 0: nullptr) and its index count
  material_instances_, \* Ui::material_instances_, with the scissor and the
                       \* albedo texture last set on each instance
  vertex_data_,        \* Ui::vertex_data_: its size and what the last copies
                       \* put where
  index_data_,         \* Ui::index_data_ (ImDrawIdx, 16 bits each)
  ui_renderable,       \* the renderable component of Ui::ui_entity_
  fp_cast,             \* what the build makes of an out-of-range
                       \* floating-point to integer conversion
  effects,             \* history: what the latest Ui call did to the engine
                       \* and the callbacks it invoked, in order
  ui_calls,            \* history: the Ui calls so far with their arguments
  app,                 \* the fields of App: window_, engine_, swap_chain_,
                       \* renderer_, ui_context_, ui_mat_, ui_, input_, each
                       \* TRUE when it is not null
  app_pc,              \* where the App is: "idle", "polling" (inside
                       \* glfwPollEvents) or "destroyed"
  imgui,               \* the ImGui context of the App: whether the font
                       \* atlas is built, whether a frame is begun, and the
                       \* display ImGui_ImplGlfw_NewFrame reported
  app_calls,           \* history: the App calls so far, each with its result
                       \* and what it did, in order
  apps,                \* the App objects of a program: for each, whether it
                       \* is not made yet, live or destructed, and its fields
                       \* (a handle is 0 for nullptr, else a position in
                       \* engine_side)
  uis,                 \* the Ui objects the program holds itself, likewise
  engine_side,         \* every engine and engine-side resource created so
                       \* far, with what was done to it
  demo_pc,             \* where main() of the demo is: the statement it
                       \* executes next
  render_skipped,      \* the local of that name in main()
  demo_calls           \* history: the statements main() has executed, in
                       \* order, each with what it was given or returned

state_vars == <<event_index, events, keys, all_events, all_keys, mod_keys,
                mouse_x, mouse_y, mouse_buttons>>
input_vars == <<state_vars, start_index, calls, child_calls>>
ui_vars == <<ui_engine_, font_atlas_, vertex_buffer_, index_buffer_,
             material_instances_, vertex_data_, index_data_, ui_renderable,
             fp_cast, effects, ui_calls>>
app_vars == <<app, app_pc, imgui, app_calls>>
life_vars == <<apps, uis, engine_side>>
demo_vars == <<demo_pc, render_skipped, demo_calls>>
vars == <<input_vars, ui_vars, app_vars, life_vars, demo_vars>>

\* A null buffer pointer, and the entity without a renderable component.
NoBuffer == [id |-> 0, count |-> 0]
NoRenderable == [present |-> FALSE, count |-> 0, batches |-> <<>>]

\* The two conversions of an out-of-range floating-point value common builds
\* produce: the value modulo the width, or the nearest representable value.
FpCasts == {"wrap", "saturate"}

\* Ui(engine, material): the buffers, the font atlas and the material
\* instances are created later, by RebuildFontAtlas and UpdateView.
UiConstructed(engine, cast) ==
  /\ ui_engine_ = engine
  /\ font_atlas_ = 0
  /\ vertex_buffer_ = NoBuffer
  /\ index_buffer_ = NoBuffer
  /\ material_instances_ = <<>>
  /\ vertex_data_ = [size |-> 0, spans |-> <<>>]
  /\ index_data_ = <<>>
  /\ ui_renderable = NoRenderable
  /\ fp_cast = cast
  /\ effects = <<>>
  /\ ui_calls = <<>>

\* A Handler on its own: no Ui takes part in its runs.
NoUi == UiConstructed(FALSE, "wrap")

\* App(window, imgui_filamat, imgui_filamat_size, log): everything but the
\* constructor parameters is null until Init().
AppConstructed(window) ==
  /\ app = [window_ |-> window, engine_ |-> FALSE, swap_chain_ |-> FALSE,
            renderer_ |-> FALSE, ui_context_ |-> FALSE, ui_mat_ |-> FALSE,
            ui_ |-> FALSE, input_ |-> FALSE]
  /\ app_pc = "idle"
  /\ imgui = [fonts_built |-> FALSE, in_frame |-> FALSE, size |-> 0,
              scale |-> 1]
  /\ app_calls = <<>>

\* A Handler or a Ui on its own: no App takes part in its runs.
NoApp == AppConstructed(FALSE)

\* The objects whose lifetimes are followed: each is "none" until it is
\* constructed, then "live", then "dead" once destructed.
AppSlots == {"a", "b"}
UiSlots == {"u"}
NoObject == [life |-> "none"]

\* Runs that follow no object lifetimes.
NoObjects ==
  /\ apps = [a \in AppSlots |-> NoObject]
  /\ uis = [u \in UiSlots |-> NoObject]
  /\ engine_side = <<>>

\* main() of the demo before its first statement.
DemoStarted ==
  /\ demo_pc = "Init"
  /\ render_skipped = FALSE
  /\ demo_calls = <<>>

\* Runs of the library on its own: main() of the demo takes no part.
NoDemo ==
  /\ demo_pc = "none"
  /\ render_skipped = FALSE
  /\ demo_calls = <<>>

HandlerConstructed(first_index) ==
  /\ event_index = first_index
  /\ events = <<>>
  /\ keys = KeyboardState
  /\ all_events = <<>>
  /\ all_keys = KeyboardState
  /\ mod_keys = 0
  /\ mouse_x = kDoubleInf
  /\ mouse_y = kDoubleInf
  /\ mouse_buttons = 0
  /\ start_index = event_index
  /\ calls = <<>>
  /\ child_calls = <<>>

Constructed(first_index) ==
  HandlerConstructed(first_index) /\ NoUi /\ NoApp /\ NoObjects /\ NoDemo

\* A Handler right after construction.
Init == Constructed(U64Zero)

\* A Handler at any of the start values of event_index.
InitLongRun == \E i \in StartIndexes : Constructed(i)

\* ++state_.event_index
NextEventIndex(i) == U64AddNat(i, 1)

\* if (!child_wants_capture) state_.events.push_back(e);
PushUncaptured_Always(list, e) == Append(list, e)
PushUncaptured(list, e) ==
  IF ~e.child_wants_capture THEN Append(list, e) ELSE list

Called(call) ==
  /\ calls' = Append(calls, call)
  /\ UNCHANGED <<start_index, child_calls, ui_vars, app_vars, life_vars,
                 demo_vars>>

ClearEvents_ResetsIndex ==
  /\ events' = <<>>
  /\ all_events' = <<>>
  /\ event_index' = U64Zero
  /\ Called([op |-> "ClearEvents"])
  /\ UNCHANGED <<keys, all_keys, mod_keys, mouse_x, mouse_y, mouse_buttons>>
ClearEvents_ForgetsKeys ==
  /\ events' = <<>>
  /\ all_events' = <<>>
  /\ keys' = KeyboardState
  /\ Called([op |-> "ClearEvents"])
  /\ UNCHANGED <<event_index, all_keys, mod_keys, mouse_x, mouse_y,
                 mouse_buttons>>
ClearEvents ==
  /\ events' = <<>>
  /\ all_events' = <<>>
  /\ Called([op |-> "ClearEvents"])
  /\ UNCHANGED <<event_index, keys, all_keys, mod_keys, mouse_x, mouse_y,
                 mouse_buttons>>

OnGlfwWindowFocus(window, focused, child_wants_capture) ==
  LET e == [type |-> kFocus, window |-> window,
            child_wants_capture |-> child_wants_capture, focused |-> focused]
  IN  /\ Called([op |-> "OnGlfwWindowFocus", window |-> window,
                 focused |-> focused,
                 child_result |-> child_wants_capture,
                 returned |-> child_wants_capture])
      /\ event_index' = NextEventIndex(event_index)
      /\ mouse_x' = IF focused # 0 THEN kDoubleInf ELSE mouse_x
      /\ mouse_y' = IF focused # 0 THEN kDoubleInf ELSE mouse_y
      /\ events' = PushUncaptured(events, e)
      /\ all_events' = Append(all_events, e)
      /\ UNCHANGED <<keys, all_keys, mod_keys, mouse_buttons>>

OnGlfwCursorEnter(window, entered, child_wants_capture) ==
  LET e == [type |-> kEnter, window |-> window,
            child_wants_capture |-> child_wants_capture, entered |-> entered]
  IN  /\ Called([op |-> "OnGlfwCursorEnter", window |-> window,
                 entered |-> entered,
                 child_result |-> child_wants_capture,
                 returned |-> child_wants_capture])
      /\ event_index' = NextEventIndex(event_index)
      /\ events' = PushUncaptured(events, e)
      /\ all_events' = Append(all_events, e)
      /\ UNCHANGED <<keys, all_keys, mod_keys, mouse_x, mouse_y, mouse_buttons>>

\* The position is known when neither coordinate is kDoubleInf.
PositionKnown_Always(x, y) == TRUE
PositionKnown(x, y) == x # kDoubleInf /\ y # kDoubleInf

OnGlfwCursorPos_TracksUncaptured(window, x, y, child_wants_capture) ==
  LET xoffset == IF PositionKnown(mouse_x, mouse_y) THEN x - mouse_x ELSE 0
      yoffset == IF PositionKnown(mouse_x, mouse_y) THEN y - mouse_y ELSE 0
      e == [type |-> kCursorPos, window |-> window,
            child_wants_capture |-> child_wants_capture,
            x |-> x, y |-> y, xoffset |-> xoffset, yoffset |-> yoffset,
            buttons |-> mouse_buttons, mods |-> mod_keys]
  IN  /\ Called([op |-> "OnGlfwCursorPos", window |-> window, x |-> x, y |-> y,
                 child_result |-> child_wants_capture,
                 returned |-> child_wants_capture])
      /\ event_index' = NextEventIndex(event_index)
      /\ mouse_x' = IF child_wants_capture THEN mouse_x ELSE x
      /\ mouse_y' = IF child_wants_capture THEN mouse_y ELSE y
      /\ events' = PushUncaptured(events, e)
      /\ all_events' = Append(all_events, e)
      /\ UNCHANGED <<keys, all_keys, mod_keys, mouse_buttons>>
OnGlfwCursorPos(window, x, y, child_wants_capture) ==
  LET xoffset == IF PositionKnown(mouse_x, mouse_y) THEN x - mouse_x ELSE 0
      yoffset == IF PositionKnown(mouse_x, mouse_y) THEN y - mouse_y ELSE 0
      e == [type |-> kCursorPos, window |-> window,
            child_wants_capture |-> child_wants_capture,
            x |-> x, y |-> y, xoffset |-> xoffset, yoffset |-> yoffset,
            buttons |-> mouse_buttons, mods |-> mod_keys]
  IN  /\ Called([op |-> "OnGlfwCursorPos", window |-> window, x |-> x, y |-> y,
                 child_result |-> child_wants_capture,
                 returned |-> child_wants_capture])
      /\ event_index' = NextEventIndex(event_index)
      /\ mouse_x' = x
      /\ mouse_y' = y
      /\ events' = PushUncaptured(events, e)
      /\ all_events' = Append(all_events, e)
      /\ UNCHANGED <<keys, all_keys, mod_keys, mouse_buttons>>

OnGlfwMouseButton_GlfwMods(window, button, action, mods, child_wants_capture) ==
  LET buttons == IF action = GLFW_PRESS
                   THEN SetBits(mouse_buttons, ButtonToBits(button))
                 ELSE IF action = GLFW_RELEASE
                   THEN ClearBits(mouse_buttons, ButtonToBits(button))
                 ELSE mouse_buttons
      e == [type |-> kMouseButton, window |-> window,
            child_wants_capture |-> child_wants_capture,
            button |-> button, action |-> action, mods |-> mods]
  IN  /\ Called([op |-> "OnGlfwMouseButton", window |-> window,
                 button |-> button, action |-> action, mods |-> mods,
                 child_result |-> child_wants_capture,
                 returned |-> child_wants_capture])
      /\ event_index' = NextEventIndex(event_index)
      /\ mouse_buttons' = buttons
      /\ events' = PushUncaptured(events, e)
      /\ all_events' = Append(all_events, e)
      /\ UNCHANGED <<keys, all_keys, mod_keys, mouse_x, mouse_y>>
OnGlfwMouseButton_GatedByCapture(window, button, action, mods, child_wants_capture) ==
  LET buttons == IF child_wants_capture THEN mouse_buttons
                 ELSE IF action = GLFW_PRESS
                   THEN SetBits(mouse_buttons, ButtonToBits(button))
                 ELSE IF action = GLFW_RELEASE
                   THEN ClearBits(mouse_buttons, ButtonToBits(button))
                 ELSE mouse_buttons
      e == [type |-> kMouseButton, window |-> window,
            child_wants_capture |-> child_wants_capture,
            button |-> button, action |-> action, mods |-> mod_keys]
  IN  /\ Called([op |-> "OnGlfwMouseButton", window |-> window,
                 button |-> button, action |-> action, mods |-> mods,
                 child_result |-> child_wants_capture,
                 returned |-> child_wants_capture])
      /\ event_index' = NextEventIndex(event_index)
      /\ mouse_buttons' = buttons
      /\ events' = PushUncaptured(events, e)
      /\ all_events' = Append(all_events, e)
      /\ UNCHANGED <<keys, all_keys, mod_keys, mouse_x, mouse_y>>
OnGlfwMouseButton(window, button, action, mods, child_wants_capture) ==
  LET buttons == IF action = GLFW_PRESS
                   THEN SetBits(mouse_buttons, ButtonToBits(button))
                 ELSE IF action = GLFW_RELEASE
                   THEN ClearBits(mouse_buttons, ButtonToBits(button))
                 ELSE mouse_buttons
      e == [type |-> kMouseButton, window |-> window,
            child_wants_capture |-> child_wants_capture,
            button |-> button, action |-> action, mods |-> mod_keys]
  IN  /\ Called([op |-> "OnGlfwMouseButton", window |-> window,
                 button |-> button, action |-> action, mods |-> mods,
                 child_result |-> child_wants_capture,
                 returned |-> child_wants_capture])
      /\ event_index' = NextEventIndex(event_index)
      /\ mouse_buttons' = buttons
      /\ events' = PushUncaptured(events, e)
      /\ all_events' = Append(all_events, e)
      /\ UNCHANGED <<keys, all_keys, mod_keys, mouse_x, mouse_y>>

OnGlfwScroll(window, xoffset, yoffset, child_wants_capture) ==
  LET e == [type |-> kScroll, window |-> window,
            child_wants_capture |-> child_wants_capture,
            xoffset |-> xoffset, yoffset |-> yoffset, mods |-> mod_keys]
  IN  /\ Called([op |-> "OnGlfwScroll", window |-> window,
                 xoffset |-> xoffset, yoffset |-> yoffset,
                 child_result |-> child_wants_capture,
                 returned |-> child_wants_capture])
      /\ event_index' = NextEventIndex(event_index)
      /\ events' = PushUncaptured(events, e)
      /\ all_events' = Append(all_events, e)
      /\ UNCHANGED <<keys, all_keys, mod_keys, mouse_x, mouse_y, mouse_buttons>>

\* The switch of OnGlfwKey: the modifier bit a key stands for, 0 for none.
ModBitsOfKey(key) ==
  CASE key \in {GLFW_KEY_LEFT_SHIFT, GLFW_KEY_RIGHT_SHIFT} -> GLFW_MOD_SHIFT
    [] key \in {GLFW_KEY_LEFT_CONTROL, GLFW_KEY_RIGHT_CONTROL} -> GLFW_MOD_CONTROL
    [] key \in {GLFW_KEY_LEFT_ALT, GLFW_KEY_RIGHT_ALT} -> GLFW_MOD_ALT
    [] key \in {GLFW_KEY_LEFT_SUPER, GLFW_KEY_RIGHT_SUPER} -> GLFW_MOD_SUPER
    [] key = GLFW_KEY_NUM_LOCK -> GLFW_MOD_NUM_LOCK
    [] key = GLFW_KEY_CAPS_LOCK -> GLFW_MOD_CAPS_LOCK
    [] OTHER -> 0

UpdateModKeys_RepeatSets(mask, key, action) ==
  IF ModBitsOfKey(key) = 0 THEN mask
  ELSE IF action = GLFW_RELEASE THEN ClearBits(mask, ModBitsOfKey(key))
  ELSE SetBits(mask, ModBitsOfKey(key))
UpdateModKeys(mask, key, action) ==
  IF ModBitsOfKey(key) = 0 THEN mask
  ELSE IF action = GLFW_PRESS THEN SetBits(mask, ModBitsOfKey(key))
  ELSE IF action = GLFW_RELEASE THEN ClearBits(mask, ModBitsOfKey(key))
  ELSE mask

\* The press/release update of one key-press table.
UpdateKeyTable_StoresFlag(table, key, action, index) ==
  IF action = GLFW_PRESS THEN SetKeyEventIndex(table, key, U64FromNat(1))
  ELSE IF action = GLFW_RELEASE THEN SetKeyEventIndex(table, key, U64Zero)
  ELSE table
UpdateKeyTable_RepeatRefreshes(table, key, action, index) ==
  IF action = GLFW_RELEASE THEN SetKeyEventIndex(table, key, U64Zero)
  ELSE SetKeyEventIndex(table, key, index)
UpdateKeyTable(table, key, action, index) ==
  IF action = GLFW_PRESS THEN SetKeyEventIndex(table, key, index)
  ELSE IF action = GLFW_RELEASE THEN SetKeyEventIndex(table, key, U64Zero)
  ELSE table

\* State::keys is updated inside `if (!child_wants_capture)`.
UpdateUncapturedKeys_WhenCaptured(table, key, action, index, child_wants_capture) ==
  IF child_wants_capture THEN UpdateKeyTable(table, key, action, index)
  ELSE table
UpdateUncapturedKeys_Always(table, key, action, index, child_wants_capture) ==
  UpdateKeyTable(table, key, action, index)
UpdateUncapturedKeys(table, key, action, index, child_wants_capture) ==
  IF ~child_wants_capture THEN UpdateKeyTable(table, key, action, index)
  ELSE table

OnGlfwKey(window, key, scancode, action, mods, child_wants_capture) ==
  LET index == NextEventIndex(event_index)
      mask == UpdateModKeys(mod_keys, key, action)
      e == [type |-> kKey, window |-> window,
            child_wants_capture |-> child_wants_capture,
            key |-> key, scancode |-> scancode, action |-> action,
            mods |-> mask]
  IN  /\ Called([op |-> "OnGlfwKey", window |-> window, key |-> key,
                 scancode |-> scancode, action |-> action, mods |-> mods,
                 child_result |-> child_wants_capture,
                 returned |-> child_wants_capture])
      /\ event_index' = index
      /\ mod_keys' = mask
      /\ keys' = UpdateUncapturedKeys(keys, key, action, index,
                                      child_wants_capture)
      /\ events' = PushUncaptured(events, e)
      /\ all_keys' = UpdateKeyTable(all_keys, key, action, index)
      /\ all_events' = Append(all_events, e)
      /\ UNCHANGED <<mouse_x, mouse_y, mouse_buttons>>

OnGlfwChar(window, c, child_wants_capture) ==
  LET e == [type |-> kChar, window |-> window,
            child_wants_capture |-> child_wants_capture, charval |-> c]
  IN  /\ Called([op |-> "OnGlfwChar", window |-> window, c |-> c,
                 child_result |-> child_wants_capture,
                 returned |-> child_wants_capture])
      /\ event_index' = NextEventIndex(event_index)
      /\ events' = PushUncaptured(events, e)
      /\ all_events' = Append(all_events, e)
      /\ UNCHANGED <<keys, all_keys, mod_keys, mouse_x, mouse_y, mouse_buttons>>

(***************************************************************************)
(* The environment: the windowing system delivers callbacks with arguments *)
(* from the given sets, the child answers from `caps`, and the application *)
(* calls ClearEvents at any time.                                          *)
(***************************************************************************)
WindowFocus(focus, caps) ==
  \E w \in Windows, f \in focus, c \in caps :
    OnGlfwWindowFocus(w, f, c)
CursorEnter(enter, caps) ==
  \E w \in Windows, en \in enter, c \in caps :
    OnGlfwCursorEnter(w, en, c)
CursorPos(positions, caps) ==
  \E w \in Windows, p \in positions, c \in caps :
    OnGlfwCursorPos(w, p[1], p[2], c)
MouseButton(buttons, actions, modsargs, caps) ==
  \E w \in Windows, b \in buttons, a \in actions, m \in modsargs, c \in caps :
    OnGlfwMouseButton(w, b, a, m, c)
Scroll(caps) ==
  \E w \in Windows, o \in ScrollOffsets, c \in caps :
    OnGlfwScroll(w, o[1], o[2], c)
Key(keyset, actions, modsargs, caps) ==
  \E w \in Windows, k \in keyset, s \in Scancodes, a \in actions,
     m \in modsargs, c \in caps :
    OnGlfwKey(w, k, s, a, m, c)
Char(caps) ==
  \E w \in Windows, ch \in CharValues, c \in caps :
    OnGlfwChar(w, ch, c)

\* The run has made fewer than `bound` operations.
Within(bound) == Len(calls) < bound

\* Every kind of callback, captured and not.
Next ==
  \/ Within(MaxOps) /\ ClearEvents
  \/ Within(MaxOps) /\ WindowFocus({1}, BOOLEAN)
  \/ Within(MaxOps) /\ CursorEnter({1}, BOOLEAN)
  \/ Within(MaxOps) /\ CursorPos({<<10, 20>>}, BOOLEAN)
  \/ Within(MaxOps) /\ MouseButton({GLFW_MOUSE_BUTTON_LEFT}, ButtonActions,
                                   {0}, BOOLEAN)
  \/ Within(MaxOps) /\ Scroll(BOOLEAN)
  \/ Within(MaxOps) /\ Key({GLFW_KEY_A, GLFW_KEY_LEFT_SHIFT},
                           {GLFW_PRESS, GLFW_RELEASE}, {0}, BOOLEAN)
  \/ Within(MaxOps) /\ Char(BOOLEAN)

Spec == InitLongRun /\ [][Next]_vars

\* The keyboard: two keys pressed and released, captured and not, and one of
\* them repeating, among other callbacks.
NextKeys ==
  \/ Within(MaxKeyOps) /\ ClearEvents
  \/ Within(MaxKeyOps) /\ Key({GLFW_KEY_A, GLFW_KEY_D},
                              {GLFW_PRESS, GLFW_RELEASE}, {0}, BOOLEAN)
  \/ Within(MaxKeyOps) /\ Key({GLFW_KEY_A}, {GLFW_REPEAT}, {0}, {FALSE})
  \/ Within(MaxKeyOps) /\ Char({TRUE})

SpecKeys == InitLongRun /\ [][NextKeys]_vars

\* The mouse: focus, enter and leave, cursor positions and buttons.
NextMouse ==
  \/ Within(MaxMouseOps) /\ ClearEvents
  \/ Within(MaxMouseOps) /\ WindowFocus(FocusValues, {FALSE})
  \/ Within(MaxMouseOps) /\ CursorEnter(EnterValues, {FALSE})
  \/ Within(MaxMouseOps) /\ CursorPos(CursorPositions, BOOLEAN)
  \/ Within(MaxMouseOps) /\ MouseButton(MouseButtons, ButtonActions, {0},
                                        {FALSE})
  \/ Within(MaxMouseOps) /\ Scroll({FALSE})
  \/ Within(MaxMouseOps) /\ Key({GLFW_KEY_LEFT_SHIFT}, {GLFW_PRESS}, {0},
                                {FALSE})
  \/ Within(MaxMouseOps) /\ Char({FALSE})

SpecMouse == Init /\ [][NextMouse]_vars

(***************************************************************************)
(* What the properties read of the history.                                *)
(***************************************************************************)
IsCallback(call) == call.op # "ClearEvents"
NumCallbacks == Cardinality({i \in DOMAIN calls : IsCallback(calls[i])})
LastCall == calls[Len(calls)]
LastEvent == all_events[Len(all_events)]
Uncaptured(e) == ~e.child_wants_capture

\* The Event type tag a callback logs.
TypeOf(call) ==
  CASE call.op = "OnGlfwWindowFocus" -> kFocus
    [] call.op = "OnGlfwCursorEnter" -> kEnter
    [] call.op = "OnGlfwCursorPos" -> kCursorPos
    [] call.op = "OnGlfwMouseButton" -> kMouseButton
    [] call.op = "OnGlfwScroll" -> kScroll
    [] call.op = "OnGlfwKey" -> kKey
    [] call.op = "OnGlfwChar" -> kChar

\* The calls since the last ClearEvents: the callbacks of the current frame.
LastClear ==
  LET cl == {i \in DOMAIN calls : ~IsCallback(calls[i])}
  IN  IF cl = {} THEN 0 ELSE CHOOSE i \in cl : \A j \in cl : j <= i
FrameCalls == SubSeq(calls, LastClear + 1, Len(calls))

(***************************************************************************)
(* C1: after N callbacks of any kind, interleaved with any number of       *)
(* ClearEvents calls and whatever the child answered, event_index is its   *)
(* value at the start of the run plus exactly N (so it is never reset and  *)
(* never decreases).                                                       *)
(***************************************************************************)
C1_EventIndexCountsCallbacks ==
  event_index = U64AddNat(start_index, NumCallbacks)

C1_Witness ==
  /\ NumCallbacks = 2
  /\ \E i \in DOMAIN calls : ~IsCallback(calls[i])
  /\ \E i \in DOMAIN calls : IsCallback(calls[i]) /\ calls[i].child_result
  /\ start_index # U64Zero
  /\ event_index = U64AddNat(start_index, 2)

(***************************************************************************)
(* C2: for every kind of callback, the event is appended to all_events     *)
(* with child_wants_capture equal to the child's result; it is appended to *)
(* events exactly when the child did not capture it.  So events is         *)
(* all_events without its captured events, in the same order, and the      *)
(* events of all_events are those of the callbacks since the last          *)
(* ClearEvents, one each, with the child's results.                        *)
(***************************************************************************)
C2_CaptureRouting ==
  /\ events = SelectSeq(all_events, Uncaptured)
  /\ Len(all_events) = Len(FrameCalls)
  /\ \A i \in DOMAIN all_events :
       /\ all_events[i].type = TypeOf(FrameCalls[i])
       /\ all_events[i].child_wants_capture = FrameCalls[i].child_result

C2_Witness ==
  /\ Len(all_events) = 3
  /\ Len(events) = 1
  /\ all_events[1].type = kKey /\ all_events[1].child_wants_capture
  /\ all_events[2].type = kCursorPos /\ ~all_events[2].child_wants_capture
  /\ all_events[3].type = kChar /\ all_events[3].child_wants_capture

MaxOf(S) == CHOOSE i \in S : \A j \in S : j <= i

\* The value ++event_index gave the i-th call of the run (a callback).
IndexOfCall(i) ==
  U64AddNat(start_index, Cardinality({j \in 1..i : IsCallback(calls[j])}))

IsKeyCall(i, key, actions) ==
  /\ calls[i].op = "OnGlfwKey"
  /\ calls[i].key = key
  /\ calls[i].action \in actions

\* The press and release callbacks of `key`; with uncaptured_only, those the
\* child did not capture.
PressReleaseCalls(key, uncaptured_only) ==
  {i \in DOMAIN calls :
     /\ IsKeyCall(i, key, {GLFW_PRESS, GLFW_RELEASE})
     /\ uncaptured_only => ~calls[i].child_result}

\* 0 when the latest such callback of `key` is a release (or there is none),
\* else the event index of that latest press.
RecordedIndex(key, uncaptured_only) ==
  LET S == PressReleaseCalls(key, uncaptured_only)
  IN  IF S = {} THEN U64Zero
      ELSE IF calls[MaxOf(S)].action = GLFW_RELEASE THEN U64Zero
      ELSE IndexOfCall(MaxOf(S))

Tables == {keys, all_keys}

\* The keys Axis is asked about: two in-range keys, and one key on each side
\* of the table's range.
AxisKeys == {GLFW_KEY_A, GLFW_KEY_D, GLFW_KEY_UNKNOWN, GLFW_KEY_LAST + 1}

C5_CaptureGatesKeysOnly ==
  [][(calls' # calls /\ LastCall'.op = "OnGlfwKey") =>
       LET c == LastCall'
           written == IF c.action = GLFW_PRESS THEN event_index' ELSE U64Zero
       IN  /\ c.child_result => keys' = keys
           /\ keys' # keys =>
                ~c.child_result /\ c.action \in {GLFW_PRESS, GLFW_RELEASE}
           /\ (c.action \in {GLFW_PRESS, GLFW_RELEASE} /\ InTable(c.key)) =>
                /\ PressedEventIndex(all_keys', c.key) = written
                /\ ~c.child_result =>
                     PressedEventIndex(keys', c.key) = written]_vars

C5_Witness ==
  /\ Len(calls) = 3
  /\ IsKeyCall(1, GLFW_KEY_A, {GLFW_PRESS}) /\ ~calls[1].child_result
  /\ IsKeyCall(2, GLFW_KEY_D, {GLFW_PRESS}) /\ calls[2].child_result
  /\ IsKeyCall(3, GLFW_KEY_A, {GLFW_RELEASE}) /\ calls[3].child_result
  /\ DOMAIN keys = {GLFW_KEY_A}
  /\ DOMAIN all_keys = {GLFW_KEY_D}

C7_AxisFollowsPressIndex ==
  \A t \in Tables : \A a, b \in AxisKeys :
    LET index_minus == PressedEventIndex(t, a)
        index_plus == PressedEventIndex(t, b)
    IN  /\ Axis(t, a, b) = -1 <=> U64Less(index_plus, index_minus)
        /\ Axis(t, a, b) = 1 <=> U64Less(index_minus, index_plus)
        /\ (a # b /\ InTable(a) /\ InTable(b) /\ index_minus # U64Zero) =>
             index_minus # index_plus
        /\ (a # b /\ InTable(a) /\ InTable(b) /\ Axis(t, a, b) = 0) =>
             (~IsPressed(t, a) /\ ~IsPressed(t, b))

(***************************************************************************)
(* C8: for distinct in-range keys A and B, once an uncaptured press of A   *)
(* has been followed by an uncaptured press of B, and as long as B has not *)
(* been released (nor A pressed again) since, keys.Axis(A, B) is +1, both  *)
(* before and after A is released and whatever other callbacks occurred.   *)
(***************************************************************************)
UncapturedPresses(key) ==
  {i \in DOMAIN calls : IsKeyCall(i, key, {GLFW_PRESS}) /\ ~calls[i].child_result}

PressedAfter(key_a, key_b) ==
  /\ UncapturedPresses(key_a) # {}
  /\ UncapturedPresses(key_b) # {}
  /\ MaxOf(UncapturedPresses(key_a)) < MaxOf(UncapturedPresses(key_b))
  /\ \A i \in DOMAIN calls :
       i > MaxOf(UncapturedPresses(key_b)) =>
         ~IsKeyCall(i, key_b, {GLFW_RELEASE})

C8_LaterPressWinsAxis ==
  \A a, b \in AxisKeys :
    (a # b /\ InTable(a) /\ InTable(b) /\ PressedAfter(a, b)) =>
      Axis(keys, a, b) = 1

(***************************************************************************)
(* The mouse history: what the calls so far say a cursor event's offsets   *)
(* should be.                                                              *)
(***************************************************************************)
\* The latest of a set of calls, 0 when there is none.
LatestOf(S) == IF S = {} THEN 0 ELSE MaxOf(S)

IsCursorPos(call) == call.op = "OnGlfwCursorPos"

IsFocusGained(call) == call.op = "OnGlfwWindowFocus" /\ call.focused # 0

IsCursorLeave(call) == call.op = "OnGlfwCursorEnter" /\ call.entered = 0

IsCursorReenter(call) == call.op = "OnGlfwCursorEnter" /\ call.entered # 0

\* The latest cursor-position, focus-gained, cursor-leave and cursor-enter
\* callback before the n-th call.
CursorPosBefore(n) == LatestOf({j \in 1..(n - 1) : IsCursorPos(calls[j])})

FocusGainedBefore(n) == LatestOf({j \in 1..(n - 1) : IsFocusGained(calls[j])})

CursorLeaveBefore(n) == LatestOf({j \in 1..(n - 1) : IsCursorLeave(calls[j])})

CursorReenterBefore(n) ==
  LatestOf({j \in 1..(n - 1) : IsCursorReenter(calls[j])})

\* No cursor position has been reported before the n-th call, or none since
\* the window last gained focus.
UnknownBefore(n) ==
  CursorPosBefore(n) <= FocusGainedBefore(n)

\* The movement from the previous reported position to that of the n-th call.
MovedBy(n) ==
  LET previous == calls[CursorPosBefore(n)]
  IN  <<calls[n].x - previous.x, calls[n].y - previous.y>>

\* The n-th call of the run, for the i-th event of the frame.
CallOfEvent(i) == LastClear + i

Offsets(e) == <<e.xoffset, e.yoffset>>

(***************************************************************************)
(* C9: the stored mouse position is the unknown sentinel initially and     *)
(* after a focus-gained callback, until the next cursor-position callback; *)
(* a cursor-position event that arrives while the position is unknown      *)
(* reports delta (0, 0), and every other cursor-position event reports its *)
(* position minus the position of the previous cursor-position callback.   *)
(***************************************************************************)
C9_CursorDelta ==
  /\ IF UnknownBefore(Len(calls) + 1)
     THEN mouse_x = kDoubleInf /\ mouse_y = kDoubleInf
     ELSE /\ mouse_x = calls[CursorPosBefore(Len(calls) + 1)].x
          /\ mouse_y = calls[CursorPosBefore(Len(calls) + 1)].y
  /\ \A i \in DOMAIN all_events :
       all_events[i].type = kCursorPos =>
         Offsets(all_events[i]) =
           IF UnknownBefore(CallOfEvent(i)) THEN <<0, 0>>
           ELSE MovedBy(CallOfEvent(i))

C9_Witness ==
  /\ Len(all_events) = 4
  /\ all_events[1].type = kCursorPos /\ Offsets(all_events[1]) = <<0, 0>>
  /\ all_events[2].type = kCursorPos /\ Offsets(all_events[2]) = <<3, 4>>
  /\ all_events[3].type = kFocus /\ all_events[3].focused # 0
  /\ all_events[4].type = kCursorPos /\ Offsets(all_events[4]) = <<0, 0>>
  /\ all_events[4].x = 10 /\ all_events[2].x = 13
  /\ mouse_x = 10 /\ mouse_y = 20

(***************************************************************************)
(* C10: when the cursor has left the window and re-entered it since the    *)
(* previous cursor-position callback, the next cursor-position event       *)
(* reports delta (0, 0), not the jump from the last position seen before   *)
(* the cursor left.                                                        *)
(***************************************************************************)
ReenteredBefore(n) ==
  /\ CursorPosBefore(n) < CursorLeaveBefore(n)
  /\ CursorLeaveBefore(n) < CursorReenterBefore(n)

C10_ReentryResetsDelta ==
  \A i \in DOMAIN all_events :
    (all_events[i].type = kCursorPos /\ ReenteredBefore(CallOfEvent(i))) =>
      Offsets(all_events[i]) = <<0, 0>>

(***************************************************************************)
(* Key codes on both sides of the tracked range: an in-range key, the      *)
(* negative "unknown key" code and the first code past GLFW_KEY_LAST.      *)
(***************************************************************************)
RangeKeys == {GLFW_KEY_A, GLFW_KEY_UNKNOWN, GLFW_KEY_LAST + 1}

NextRange ==
  \/ Within(MaxRangeOps) /\ ClearEvents
  \/ Within(MaxRangeOps) /\ Key(RangeKeys, {GLFW_PRESS, GLFW_RELEASE}, {0},
                                BOOLEAN)

SpecRange == InitLongRun /\ [][NextRange]_vars

\* Outside the tracked range [0, GLFW_KEY_LAST].
OutOfRange(key) == key < 0 \/ key > GLFW_KEY_LAST

(***************************************************************************)
(* C11: a key callback whose key lies outside [0, GLFW_KEY_LAST] (the      *)
(* negative unknown-key code included) completes, leaves keys and all_keys *)
(* unchanged, increments event_index and logs its event; and               *)
(* PressedEventIndex, IsPressed and Axis answer for an out-of-range key    *)
(* what they answer for a released in-range key.                           *)
(***************************************************************************)
C11_OutOfRangeKeyIgnored ==
  /\ [](\A t \in Tables : \A k \in QueryKeys :
          OutOfRange(k) =>
            /\ PressedEventIndex(t, k) = U64Zero
            /\ ~IsPressed(t, k)
            /\ \A b, r \in QueryKeys :
                 (~OutOfRange(r) /\ ~IsPressed(t, r)) =>
                   /\ Axis(t, k, b) = Axis(t, r, b)
                   /\ Axis(t, b, k) = Axis(t, b, r))
  /\ [][(calls' # calls /\ LastCall'.op = "OnGlfwKey"
           /\ OutOfRange(LastCall'.key)) =>
          /\ keys' = keys
          /\ all_keys' = all_keys
          /\ event_index' = U64AddNat(event_index, 1)
          /\ all_events' = Append(all_events, LastEvent')
          /\ LastEvent'.type = kKey
          /\ LastEvent'.key = LastCall'.key
          /\ LastEvent'.action = LastCall'.action
          /\ events' = IF LastCall'.child_result THEN events
                       ELSE Append(events, LastEvent')]_vars

C11_Witness ==
  /\ Len(calls) = 3
  /\ IsKeyCall(1, GLFW_KEY_A, {GLFW_PRESS}) /\ ~calls[1].child_result
  /\ IsKeyCall(2, GLFW_KEY_UNKNOWN, {GLFW_PRESS}) /\ ~calls[2].child_result
  /\ IsKeyCall(3, GLFW_KEY_LAST + 1, {GLFW_PRESS}) /\ calls[3].child_result
  /\ DOMAIN keys = {GLFW_KEY_A}
  /\ DOMAIN all_keys = {GLFW_KEY_A}
  /\ Len(all_events) = 3 /\ Len(events) = 2
  /\ event_index = U64AddNat(start_index, 3)
  /\ Axis(keys, GLFW_KEY_UNKNOWN, GLFW_KEY_A) = 1

(***************************************************************************)
(* Capture and the device state: every kind of callback, each answered     *)
(* either way by the child.                                                *)
(***************************************************************************)
NextCapture ==
  \/ Within(MaxCaptureOps) /\ ClearEvents
  \/ Within(MaxCaptureOps) /\ WindowFocus({1}, BOOLEAN)
  \/ Within(MaxCaptureOps) /\ CursorEnter({1}, BOOLEAN)
  \/ Within(MaxCaptureOps) /\ CursorPos(CursorPositions, BOOLEAN)
  \/ Within(MaxCaptureOps) /\ MouseButton({GLFW_MOUSE_BUTTON_LEFT},
                                          ButtonActions, {0}, BOOLEAN)
  \/ Within(MaxCaptureOps) /\ Scroll(BOOLEAN)
  \/ Within(MaxCaptureOps) /\ Key({GLFW_KEY_A, GLFW_KEY_LEFT_SHIFT},
                                  {GLFW_PRESS, GLFW_RELEASE}, {0}, BOOLEAN)
  \/ Within(MaxCaptureOps) /\ Char(BOOLEAN)

SpecCapture == Init /\ [][NextCapture]_vars

\* An event list with the captured flag of every event blanked.
WithoutCaptureFlags(list) ==
  [i \in DOMAIN list |-> [list[i] EXCEPT !.child_wants_capture = FALSE]]

\* The rolling device state of the Handler, captured flags aside.
DeviceState ==
  [event_index |-> event_index, all_events |-> WithoutCaptureFlags(all_events),
   all_keys |-> all_keys, mod_keys |-> mod_keys,
   mouse_buttons |-> mouse_buttons, mouse_x |-> mouse_x, mouse_y |-> mouse_y]

\* What one call makes of a device state when only the call's arguments are
\* looked at, never the child's answer.
DeviceStep(d, call) ==
  LET index == NextEventIndex(d.event_index)
      logged(e) == [d EXCEPT !.event_index = index,
                             !.all_events = Append(d.all_events, e)]
  IN  CASE call.op = "ClearEvents" -> [d EXCEPT !.all_events = <<>>]
        [] call.op = "OnGlfwWindowFocus" ->
             [logged([type |-> kFocus, window |-> call.window,
                      child_wants_capture |-> FALSE,
                      focused |-> call.focused])
                EXCEPT !.mouse_x = IF call.focused # 0 THEN kDoubleInf ELSE @,
                       !.mouse_y = IF call.focused # 0 THEN kDoubleInf ELSE @]
        [] call.op = "OnGlfwCursorEnter" ->
             logged([type |-> kEnter, window |-> call.window,
                     child_wants_capture |-> FALSE, entered |-> call.entered])
        [] call.op = "OnGlfwCursorPos" ->
             LET known == d.mouse_x # kDoubleInf /\ d.mouse_y # kDoubleInf
             IN  [logged([type |-> kCursorPos, window |-> call.window,
                          child_wants_capture |-> FALSE,
                          x |-> call.x, y |-> call.y,
                          xoffset |-> IF known THEN call.x - d.mouse_x ELSE 0,
                          yoffset |-> IF known THEN call.y - d.mouse_y ELSE 0,
                          buttons |-> d.mouse_buttons, mods |-> d.mod_keys])
                    EXCEPT !.mouse_x = call.x, !.mouse_y = call.y]
        [] call.op = "OnGlfwMouseButton" ->
             [logged([type |-> kMouseButton, window |-> call.window,
                      child_wants_capture |-> FALSE, button |-> call.button,
                      action |-> call.action, mods |-> d.mod_keys])
                EXCEPT !.mouse_buttons =
                  IF call.action = GLFW_PRESS
                    THEN SetBits(@, ButtonToBits(call.button))
                  ELSE IF call.action = GLFW_RELEASE
                    THEN ClearBits(@, ButtonToBits(call.button))
                  ELSE @]
        [] call.op = "OnGlfwScroll" ->
             logged([type |-> kScroll, window |-> call.window,
                     child_wants_capture |-> FALSE, xoffset |-> call.xoffset,
                     yoffset |-> call.yoffset, mods |-> d.mod_keys])
        [] call.op = "OnGlfwKey" ->
             LET mask == UpdateModKeys(d.mod_keys, call.key, call.action)
             IN  [logged([type |-> kKey, window |-> call.window,
                          child_wants_capture |-> FALSE, key |-> call.key,
                          scancode |-> call.scancode, action |-> call.action,
                          mods |-> mask])
                    EXCEPT !.mod_keys = mask,
                           !.all_keys = UpdateKeyTable(@, call.key,
                                                       call.action, index)]
        [] call.op = "OnGlfwChar" ->
             logged([type |-> kChar, window |-> call.window,
                     child_wants_capture |-> FALSE, charval |-> call.c])

\* The device state the first n calls of the run lead to, whatever the child
\* answered to them.
RECURSIVE DeviceStateAfter(_)
DeviceStateAfter(n) ==
  IF n = 0
    THEN [event_index |-> start_index, all_events |-> <<>>,
          all_keys |-> KeyboardState, mod_keys |-> 0, mouse_buttons |-> 0,
          mouse_x |-> kDoubleInf, mouse_y |-> kDoubleInf]
    ELSE DeviceStep(DeviceStateAfter(n - 1), calls[n])

(***************************************************************************)
(* C12: after every step, event_index, the modifier mask, the mouse-button *)
(* mask, the mouse position, all_keys and all_events (the captured flags   *)
(* aside) are what the sequence of calls and their arguments alone         *)
(* determine; so two runs fed the same sequence that differ only in the    *)
(* child's capture results agree on all of them.                           *)
(***************************************************************************)
C12_CaptureNeverInfluencesDeviceState ==
  DeviceState = DeviceStateAfter(Len(calls))

C12_Witness ==
  /\ Len(calls) = 3
  /\ calls[1].op = "OnGlfwKey" /\ calls[1].key = GLFW_KEY_LEFT_SHIFT
  /\ calls[1].action = GLFW_PRESS /\ calls[1].child_result
  /\ calls[2].op = "OnGlfwMouseButton" /\ calls[2].action = GLFW_PRESS
  /\ calls[2].child_result
  /\ calls[3].op = "OnGlfwCursorPos" /\ ~calls[3].child_result
  /\ mod_keys = GLFW_MOD_SHIFT
  /\ mouse_buttons = ButtonToBits(GLFW_MOUSE_BUTTON_LEFT)
  /\ mouse_x = 13
  /\ DOMAIN all_keys = {GLFW_KEY_LEFT_SHIFT}
  /\ keys = KeyboardState
  /\ Len(events) = 1 /\ Len(all_events) = 3

(***************************************************************************)
(* A handler taken in two steps.  Every Handler operation begins with the  *)
(* call to the child (`child_.OnGlfw...(...)`, `child_.ClearEvents()`);    *)
(* the rest of its body runs after the child has returned.  The calls are  *)
(* made from one thread, so an operation begins only when none is running. *)
(***************************************************************************)
HandlerRunning == Len(child_calls) = Len(calls) + 1

\* First statement of an operation: the child is called with the arguments
\* of `call` and answers call.child_result.
CallChild_AfterIncrement(call) ==
  /\ ~HandlerRunning
  /\ child_calls' = Append(child_calls, call)
  /\ event_index' = NextEventIndex(event_index)
  /\ UNCHANGED <<events, keys, all_events, all_keys, mod_keys, mouse_x,
                 mouse_y, mouse_buttons, start_index, calls, ui_vars, app_vars,
                 life_vars, demo_vars>>
CallChild(call) ==
  /\ ~HandlerRunning
  /\ child_calls' = Append(child_calls, call)
  /\ UNCHANGED <<state_vars, start_index, calls, ui_vars, app_vars, life_vars,
                 demo_vars>>

\* The rest of the running operation, with the child's answer.
AfterChild ==
  /\ HandlerRunning
  /\ LET p == child_calls[Len(child_calls)]
     IN  \/ p.op = "ClearEvents" /\ ClearEvents
         \/ /\ p.op = "OnGlfwWindowFocus"
            /\ OnGlfwWindowFocus(p.window, p.focused, p.child_result)
         \/ /\ p.op = "OnGlfwCursorEnter"
            /\ OnGlfwCursorEnter(p.window, p.entered, p.child_result)
         \/ /\ p.op = "OnGlfwCursorPos"
            /\ OnGlfwCursorPos(p.window, p.x, p.y, p.child_result)
         \/ /\ p.op = "OnGlfwMouseButton"
            /\ OnGlfwMouseButton(p.window, p.button, p.action, p.mods,
                                 p.child_result)
         \/ /\ p.op = "OnGlfwScroll"
            /\ OnGlfwScroll(p.window, p.xoffset, p.yoffset, p.child_result)
         \/ /\ p.op = "OnGlfwKey"
            /\ OnGlfwKey(p.window, p.key, p.scancode, p.action, p.mods,
                         p.child_result)
         \/ p.op = "OnGlfwChar" /\ OnGlfwChar(p.window, p.c, p.child_result)

\* The operations the windowing system and the application begin.
BeginOperation ==
  \E w \in Windows, c \in BOOLEAN :
    \/ CallChild([op |-> "ClearEvents"])
    \/ CallChild([op |-> "OnGlfwWindowFocus", window |-> w, focused |-> 1,
                  child_result |-> c])
    \/ CallChild([op |-> "OnGlfwCursorEnter", window |-> w, entered |-> 1,
                  child_result |-> c])
    \/ CallChild([op |-> "OnGlfwCursorPos", window |-> w, x |-> 10, y |-> 20,
                  child_result |-> c])
    \/ CallChild([op |-> "OnGlfwMouseButton", window |-> w,
                  button |-> GLFW_MOUSE_BUTTON_LEFT, action |-> GLFW_PRESS,
                  mods |-> 0, child_result |-> c])
    \/ CallChild([op |-> "OnGlfwScroll", window |-> w, xoffset |-> 0,
                  yoffset |-> 1, child_result |-> c])
    \/ CallChild([op |-> "OnGlfwKey", window |-> w, key |-> GLFW_KEY_A,
                  scancode |-> 38, action |-> GLFW_PRESS, mods |-> 0,
                  child_result |-> c])
    \/ CallChild([op |-> "OnGlfwChar", window |-> w, c |-> 97,
                  child_result |-> c])

NextOrder ==
  \/ Len(child_calls) < MaxOrderOps /\ BeginOperation
  \/ AfterChild

SpecOrder == Init /\ [][NextOrder]_vars

\* What a recorded call passed on to the child: everything but the value the
\* handler returned.
PassedToChild(call) == [f \in (DOMAIN call) \ {"returned"} |-> call[f]]

(***************************************************************************)
(* C13: every callback calls the child's handler of the same kind exactly  *)
(* once, with its own arguments, and does so before it increments          *)
(* event_index or modifies any rolling state or event list; it returns the *)
(* child's result, which is also the captured flag of the event it logs.   *)
(***************************************************************************)
C13_ChildCalledFirst ==
  /\ [](/\ Len(child_calls) \in {Len(calls), Len(calls) + 1}
        /\ \A i \in DOMAIN calls :
             IsCallback(calls[i]) =>
               /\ PassedToChild(calls[i]) = child_calls[i]
               /\ calls[i].returned = child_calls[i].child_result
        /\ \A i \in DOMAIN all_events :
             all_events[i].child_wants_capture =
               child_calls[CallOfEvent(i)].child_result
        /\ event_index = U64AddNat(start_index, NumCallbacks))
  /\ [][/\ child_calls' # child_calls =>
             /\ UNCHANGED <<state_vars, calls>>
             /\ ~HandlerRunning /\ HandlerRunning'
        /\ state_vars' # state_vars =>
             /\ child_calls' = child_calls
             /\ HandlerRunning /\ ~HandlerRunning']_vars

C13_Witness ==
  /\ Len(calls) = 2
  /\ HandlerRunning
  /\ calls[1].op = "OnGlfwMouseButton" /\ calls[1].returned
  /\ calls[2].op = "OnGlfwCursorPos" /\ ~calls[2].returned
  /\ child_calls[3].op = "OnGlfwKey" /\ child_calls[3].child_result
  /\ event_index = U64FromNat(2)
  /\ Len(all_events) = 2 /\ Len(events) = 1
  /\ keys = KeyboardState /\ all_keys = KeyboardState

(***************************************************************************)
(* Ui: the translation of one frame of ImGui draw data into Filament       *)
(* buffers and one renderable (filament_imgui_impl.h).                     *)
(***************************************************************************)

\* ImDrawIdx is an unsigned short, uint16_t has the same range.
ImDrawIdxRange == 65536
Uint16Range == 65536

\* A float converted to uint16_t; a value outside 0..65535 has no defined
\* result, fp_cast names what the build makes of it.
ToUint16(value) ==
  IF value >= 0 /\ value < Uint16Range THEN value
  ELSE IF fp_cast = "wrap" THEN value % Uint16Range
  ELSE IF value < 0 THEN 0 ELSE Uint16Range - 1

\* A float converted to uint32_t, as <<low, high>> 16-bit halves; a negative
\* value has no defined result.
ToUint32(value) ==
  IF value >= 0 \/ fp_cast = "wrap"
  THEN <<value % Uint16Range, (value \div Uint16Range) % Uint16Range>>
  ELSE <<0, 0>>

SetScissor_NoFlip(clip_rect, height_px) ==
  [left   |-> ToUint32(clip_rect[1]),
   bottom |-> ToUint32(clip_rect[2]),
   width  |-> ToUint16(clip_rect[3] - clip_rect[1]),
   height |-> ToUint16(clip_rect[4] - clip_rect[2])]
\* mat.setScissor(left, bottom, width, height) as SetScissor calls it.
SetScissor(clip_rect, height_px) ==
  [left   |-> ToUint32(clip_rect[1]),
   bottom |-> ToUint32(height_px - clip_rect[4]),
   width  |-> ToUint16(clip_rect[3] - clip_rect[1]),
   height |-> ToUint16(clip_rect[4] - clip_rect[2])]

\* material_->createInstance(): nothing set on it yet.
NewInstance == [scissor |-> [unset |-> TRUE], albedo |-> <<"none", 0>>]

Resized_TwiceTheSize(data, size) ==
  [n \in 1..(2 * size) |-> IF n <= Len(data) THEN data[n] ELSE 0]
\* std::vector<ImDrawIdx>::resize(size): value-initialised where it grows.
Resized(data, size) ==
  [n \in 1..size |-> IF n <= Len(data) THEN data[n] ELSE 0]

Extended_Resized(instances, num_renderables) ==
  [n \in 1..num_renderables |->
     IF n <= Len(instances) THEN instances[n] ELSE NewInstance]
\* material_instances_ extended to num_renderables instances.
Extended(instances, num_renderables) ==
  IF Len(instances) < num_renderables
  THEN [n \in 1..num_renderables |->
          IF n <= Len(instances) THEN instances[n] ELSE NewInstance]
  ELSE instances

RECURSIVE SumOver(_, _)
\* The sum of field(list) over the draw lists, field being "verts", "inds"
\* or "cmds".
SumOver(lists, field) ==
  IF lists = <<>> THEN 0
  ELSE LET list == Head(lists)
       IN (CASE field = "verts" -> list.VtxSize
             [] field = "inds"  -> Len(list.IdxBuffer)
             [] field = "cmds"  -> Len(list.CmdBuffer))
          + SumOver(Tail(lists), field)

\* ImDrawData as ImGui::Render() leaves it: the totals are the sums.
DrawData(lists) ==
  [CmdLists      |-> lists,
   CmdListsCount |-> Len(lists),
   TotalVtxCount |-> SumOver(lists, "verts"),
   TotalIdxCount |-> SumOver(lists, "inds")]

\* The index snapshot after the indices of draw list i (0-based) are copied
\* to position i_ind: verbatim for the first list, plus i_vert in 16 bits
\* for the others.
CopyIndices(data, draw_list, i, i_ind, i_vert) ==
  LET num_inds == Len(draw_list.IdxBuffer)
  IN [n \in 1..Len(data) |->
        IF n > i_ind /\ n <= i_ind + num_inds
        THEN IF i = 0 THEN draw_list.IdxBuffer[n - i_ind]
             ELSE (draw_list.IdxBuffer[n - i_ind] + i_vert) % ImDrawIdxRange
        ELSE data[n]]

DrawCmd_BlendOrderOfCommand(acc, cmd, i, height_px) ==
  IF cmd.UserCallback
  THEN [acc EXCEPT !.invoked = Append(@, [op |-> "UserCallback", arg |-> <<i, cmd>>])]
  ELSE [acc EXCEPT
          !.instances[acc.i_renderable + 1] =
              [scissor |-> SetScissor(cmd.ClipRect, height_px),
               albedo  |-> IF cmd.TexID # 0 THEN <<"TexID", cmd.TexID>>
                           ELSE <<"font_atlas_", font_atlas_>>],
          !.batches = Append(@, [index         |-> acc.i_renderable,
                                 vertex_buffer |-> acc.vertex_buffer,
                                 index_buffer  |-> acc.index_buffer,
                                 offset        |-> cmd.IdxOffset + acc.i_ind,
                                 count         |-> cmd.ElemCount,
                                 blend_order   |-> Len(acc.batches) + Len(acc.invoked),
                                 material      |-> acc.i_renderable + 1]),
          !.i_renderable = @ + 1]
DrawCmd_CallbackIsDrawn(acc, cmd, i, height_px) ==
  LET called == IF cmd.UserCallback
                THEN [acc EXCEPT !.invoked =
                        Append(@, [op |-> "UserCallback", arg |-> <<i, cmd>>])]
                ELSE acc
  IN [called EXCEPT
        !.instances[acc.i_renderable + 1] =
            [scissor |-> SetScissor(cmd.ClipRect, height_px),
             albedo  |-> IF cmd.TexID # 0 THEN <<"TexID", cmd.TexID>>
                         ELSE <<"font_atlas_", font_atlas_>>],
        !.batches = Append(@, [index         |-> acc.i_renderable,
                               vertex_buffer |-> acc.vertex_buffer,
                               index_buffer  |-> acc.index_buffer,
                               offset        |-> cmd.IdxOffset + acc.i_ind,
                               count         |-> cmd.ElemCount,
                               blend_order   |-> acc.i_renderable,
                               material      |-> acc.i_renderable + 1]),
        !.i_renderable = @ + 1]
\* One command of draw list i: a user callback is invoked and skipped, any
\* other command becomes batch i_renderable.
DrawCmd(acc, cmd, i, height_px) ==
  IF cmd.UserCallback
  THEN [acc EXCEPT !.invoked = Append(@, [op |-> "UserCallback", arg |-> <<i, cmd>>])]
  ELSE [acc EXCEPT
          !.instances[acc.i_renderable + 1] =
              [scissor |-> SetScissor(cmd.ClipRect, height_px),
               albedo  |-> IF cmd.TexID # 0 THEN <<"TexID", cmd.TexID>>
                           ELSE <<"font_atlas_", font_atlas_>>],
          !.batches = Append(@, [index         |-> acc.i_renderable,
                                 vertex_buffer |-> acc.vertex_buffer,
                                 index_buffer  |-> acc.index_buffer,
                                 offset        |-> cmd.IdxOffset + acc.i_ind,
                                 count         |-> cmd.ElemCount,
                                 blend_order   |-> acc.i_renderable,
                                 material      |-> acc.i_renderable + 1]),
          !.i_renderable = @ + 1]

RECURSIVE DrawCmds(_, _, _, _, _)
\* for (const auto &cmd : draw_list.CmdBuffer), from command j on.
DrawCmds(acc, cmds, j, i, height_px) ==
  IF j > Len(cmds) THEN acc
  ELSE DrawCmds(DrawCmd(acc, cmds[j], i, height_px), cmds, j + 1, i, height_px)

\* One iteration of the loop over the draw lists.
DrawList(acc, draw_list, i, height_px) ==
  LET num_verts == draw_list.VtxSize
      num_inds == Len(draw_list.IdxBuffer)
      copied == [acc EXCEPT
                   !.spans = Append(@, [from |-> acc.i_vert,
                                        count |-> num_verts, list |-> i]),
                   !.index_data = CopyIndices(@, draw_list, i, acc.i_ind,
                                              acc.i_vert)]
      drawn == DrawCmds(copied, draw_list.CmdBuffer, 1, i, height_px)
  IN [drawn EXCEPT !.i_vert = @ + num_verts, !.i_ind = @ + num_inds]

RECURSIVE DrawLists(_, _, _, _)
\* for (int i = 0; i < commands.CmdListsCount; ++i), from list i on.
DrawLists(acc, lists, i, height_px) ==
  IF i >= Len(lists) THEN acc
  ELSE DrawLists(DrawList(acc, lists[i + 1], i, height_px), lists, i + 1,
                 height_px)

Replaced_CreateFirst(op, buffer, count) ==
  <<[op |-> "create", arg |-> <<op, buffer.id + 1, count>>],
    [op |-> "destroy", arg |-> <<op, buffer.id>>]>>
\* The engine calls made while a buffer is replaced.
Replaced(op, buffer, count) ==
  <<[op |-> "destroy", arg |-> <<op, buffer.id>>],
    [op |-> "create", arg |-> <<op, buffer.id + 1, count>>]>>

\* Ui::RebuildFontAtlas(fonts)
RebuildFontAtlas ==
  /\ ui_calls' = Append(ui_calls, [op |-> "RebuildFontAtlas"])
  /\ IF ~ui_engine_
     THEN /\ effects' = <<>>
          /\ UNCHANGED font_atlas_
     ELSE /\ effects' = <<[op |-> "Fence::waitAndDestroy", arg |-> 0],
                          [op |-> "destroy", arg |-> <<"font_atlas_", font_atlas_>>],
                          [op |-> "create", arg |-> <<"font_atlas_", font_atlas_ + 1>>],
                          [op |-> "SetTexID", arg |-> 0]>>
          /\ font_atlas_' = font_atlas_ + 1
  /\ UNCHANGED <<ui_engine_, vertex_buffer_, index_buffer_, material_instances_,
                 vertex_data_, index_data_, ui_renderable, fp_cast>>

Minimized_OrAtlasNotBuilt(io) ==
  (io.DisplaySize[1] = 0 /\ io.DisplaySize[2] = 0) \/ ~io.FontsBuilt
Minimized_Never(io) == FALSE
\* "Don't render if app is minimized."
Minimized(io) == io.DisplaySize[1] = 0 /\ io.DisplaySize[2] = 0

NeedsRebuild_OnEqual(buffer, demand) == buffer = NoBuffer \/ buffer.count <= demand
\* vertex_buffer_ == nullptr ||
\*     vertex_buffer_->getVertexCount() < commands.TotalVtxCount
\* (the same for the index buffer)
NeedsRebuild(buffer, demand) == buffer = NoBuffer \/ buffer.count < demand

NoCommands_Never(commands) == FALSE
\* if (commands.CmdListsCount == 0) return;
NoCommands(commands) == commands.CmdListsCount = 0

\* Ui::UpdateView(commands, io)
UpdateView(commands, io) ==
  LET width_px == io.DisplaySize[1] * io.DisplayFramebufferScale[1]
      height_px == io.DisplaySize[2] * io.DisplayFramebufferScale[2]
      rebuild_vertex_buffer ==
        NeedsRebuild(vertex_buffer_, commands.TotalVtxCount)
      rebuild_index_buffer ==
        NeedsRebuild(index_buffer_, commands.TotalIdxCount)
      vertex_buffer ==
        IF rebuild_vertex_buffer
        THEN [id |-> vertex_buffer_.id + 1, count |-> commands.TotalVtxCount]
        ELSE vertex_buffer_
      index_buffer ==
        IF rebuild_index_buffer
        THEN [id |-> index_buffer_.id + 1, count |-> commands.TotalIdxCount]
        ELSE index_buffer_
      num_renderables == SumOver(commands.CmdLists, "cmds")
      instances == Extended(material_instances_, num_renderables)
      done == DrawLists([i_vert |-> 0, i_ind |-> 0, i_renderable |-> 0,
                         vertex_buffer |-> vertex_buffer.id,
                         index_buffer |-> index_buffer.id,
                         spans |-> <<>>,
                         index_data |->
                           IF rebuild_index_buffer
                           THEN Resized(index_data_, commands.TotalIdxCount)
                           ELSE index_data_,
                         instances |-> instances,
                         batches |-> <<>>,
                         invoked |-> <<>>],
                        commands.CmdLists, 0, height_px)
      view == <<[op |-> "setViewport", arg |-> <<0, 0, width_px, height_px>>],
                [op |-> "setProjection", arg |-> io.DisplaySize],
                [op |-> "destroyRenderable", arg |-> 0]>>
  IN /\ ui_calls' = Append(ui_calls, [op |-> "UpdateView",
                                      commands |-> commands, io |-> io])
     /\ UNCHANGED <<ui_engine_, font_atlas_, fp_cast>>
     /\ IF ~ui_engine_ \/ Minimized(io)
        THEN /\ effects' = <<>>
             /\ UNCHANGED <<vertex_buffer_, index_buffer_, material_instances_,
                            vertex_data_, index_data_, ui_renderable>>
        ELSE IF NoCommands(commands)
        THEN /\ effects' = view
             /\ ui_renderable' = NoRenderable
             /\ UNCHANGED <<vertex_buffer_, index_buffer_, material_instances_,
                            vertex_data_, index_data_>>
        ELSE /\ vertex_buffer_' = vertex_buffer
             /\ index_buffer_' = index_buffer
             /\ vertex_data_' =
                  [size |-> IF rebuild_vertex_buffer
                            THEN commands.TotalVtxCount ELSE vertex_data_.size,
                   spans |-> done.spans]
             /\ index_data_' = done.index_data
             /\ material_instances_' = done.instances
             /\ ui_renderable' = [present |-> TRUE, count |-> num_renderables,
                                  batches |-> done.batches]
             /\ effects' =
                  view
                  \o (IF io.FontsBuilt THEN <<>>
                      ELSE <<[op |-> "warning", arg |-> 0]>>)
                  \o (IF rebuild_vertex_buffer \/ rebuild_index_buffer
                      THEN <<[op |-> "Fence::waitAndDestroy", arg |-> 0]>>
                      ELSE <<>>)
                  \o (IF rebuild_vertex_buffer
                      THEN Replaced("vertex_buffer_", vertex_buffer_,
                                    commands.TotalVtxCount)
                      ELSE <<>>)
                  \o (IF rebuild_index_buffer
                      THEN Replaced("index_buffer_", index_buffer_,
                                    commands.TotalIdxCount)
                      ELSE <<>>)
                  \o [n \in 1..(Len(instances) - Len(material_instances_)) |->
                        [op |-> "createInstance",
                         arg |-> Len(material_instances_) + n]]
                  \o done.invoked
                  \o <<[op |-> "build", arg |-> num_renderables]>>
                  \o (IF done.i_vert # 0
                      THEN <<[op |-> "setBufferAt", arg |-> done.i_vert]>>
                      ELSE <<>>)
                  \o (IF done.i_ind # 0
                      THEN <<[op |-> "setBuffer",
                              arg |-> SubSeq(done.index_data, 1, done.i_ind)]>>
                      ELSE <<>>)

\* ImDrawCmd values.
Draw(clip_rect, tex_id, idx_offset, elem_count) ==
  [UserCallback |-> FALSE, ClipRect |-> clip_rect, TexID |-> tex_id,
   IdxOffset |-> idx_offset, ElemCount |-> elem_count]
Callback(id) ==
  [UserCallback |-> TRUE, ClipRect |-> <<0, 0, 0, 0>>, TexID |-> 0,
   IdxOffset |-> 0, ElemCount |-> 0, id |-> id]

\* Draw lists: a quad drawn with the font atlas; a triangle drawn with a user
\* texture, after a user callback; a list of 40000 vertices; a triangle whose
\* clip rectangle leaves the framebuffer; one with an empty clip rectangle.
UserTexture == 7
BigVtxSize == 40000
Quad == [VtxSize |-> 4, IdxBuffer |-> <<0, 1, 2, 0, 2, 3>>,
         CmdBuffer |-> <<Draw(<<0, 0, 100, 100>>, 0, 0, 6)>>]
Tri == [VtxSize |-> 3, IdxBuffer |-> <<0, 1, 2>>,
        CmdBuffer |-> <<Callback(1), Draw(<<10, 20, 60, 80>>, UserTexture, 0, 3)>>]
Big == [VtxSize |-> BigVtxSize, IdxBuffer |-> <<0, 30000, 39999>>,
        CmdBuffer |-> <<Draw(<<0, 0, 200, 200>>, 0, 0, 3)>>]
Outside == [VtxSize |-> 3, IdxBuffer |-> <<0, 1, 2>>,
            CmdBuffer |-> <<Draw(<<-8, 150, 40, 260>>, 0, 0, 3)>>]
Inverted == [VtxSize |-> 3, IdxBuffer |-> <<0, 1, 2>>,
             CmdBuffer |-> <<Draw(<<50, 10, 40, 90>>, 0, 0, 3)>>]

\* The frames UpdateView is given.
Frames ==
  {DrawData(lists) : lists \in {<<>>, <<Quad>>, <<Tri>>, <<Quad, Tri>>,
                                <<Big, Big>>}}

\* ImGuiIO: a minimised window, a 200 x 200 window, and a 100 x 100 window
\* on a display of scale 2 with the font atlas invalidated.
Display(size, scale, fonts_built) ==
  [DisplaySize |-> <<size, size>>, DisplayFramebufferScale |-> <<scale, scale>>,
   FontsBuilt |-> fonts_built]
Displays == {Display(0, 1, TRUE), Display(200, 1, TRUE), Display(100, 2, FALSE)}

\* A Ui made with an engine, next to a Handler nobody calls.
InitUi ==
  HandlerConstructed(U64Zero) /\ UiConstructed(TRUE, "wrap") /\ NoApp /\ NoObjects /\ NoDemo

NextUi ==
  /\ Len(ui_calls) < MaxUiOps
  /\ UNCHANGED <<input_vars, app_vars, life_vars, demo_vars>>
  /\ \/ RebuildFontAtlas
     \/ \E commands \in Frames, io \in Displays : UpdateView(commands, io)

SpecUi == InitUi /\ [][NextUi]_vars

(***************************************************************************)
(* Claims about Ui::UpdateView.                                            *)
(***************************************************************************)

\* The latest Ui call, and whether it was an UpdateView.
LastUiCall == ui_calls[Len(ui_calls)]
UpdateViewCalled == Len(ui_calls) > 0 /\ LastUiCall.op = "UpdateView"

\* What one frame leaves behind in the Ui.
FrameState == <<ui_renderable, vertex_buffer_, index_buffer_, vertex_data_,
                index_data_, material_instances_>>

\* Whether the latest call performed the operation.
Did(op) == \E n \in 1..Len(effects) : effects[n].op = op

ZeroDisplay(io) == io.DisplaySize = <<0, 0>>

\* C14: an UpdateView call with a display size of zero leaves the renderable
\* of the previous frame, both buffers, both staging arrays and the
\* material instances as they were, and it waits on no fence, invokes no
\* callback and uploads nothing.
C14_ZeroDisplayIsNoOp ==
  [][(ui_calls' # ui_calls /\ UpdateViewCalled' /\ ZeroDisplay(LastUiCall'.io))
       => /\ FrameState' = FrameState
          /\ font_atlas_' = font_atlas_
          /\ ~Did("Fence::waitAndDestroy")' /\ ~Did("UserCallback")'
          /\ ~Did("setBufferAt")' /\ ~Did("setBuffer")'
          /\ ~Did("destroyRenderable")' /\ ~Did("destroy")'
          /\ ~Did("create")']_vars

\* A minimised frame with draw lists arrives after a frame that left two
\* batches.
C14_Witness ==
  /\ UpdateViewCalled
  /\ ZeroDisplay(LastUiCall.io)
  /\ LastUiCall.commands.CmdListsCount > 0
  /\ ui_renderable.present
  /\ Len(ui_renderable.batches) = 2
  /\ vertex_buffer_.count > 0

\* The engine operations that act on the renderable, the buffers, the
\* material instances or the callbacks of a frame.
FrameOps == {"destroyRenderable", "Fence::waitAndDestroy", "destroy", "create",
             "createInstance", "UserCallback", "build", "setBufferAt",
             "setBuffer"}

\* C15: an UpdateView call with a display size other than zero removes the
\* renderable of the previous frame before anything else it does to the
\* frame; when the frame has no command lists the entity ends the call
\* without a renderable, both buffers, both staging arrays and the instance
\* pool are as before, and nothing is waited for, destroyed, created or
\* uploaded.
C15_EmptyFrameClearsRenderable ==
  [][(ui_calls' # ui_calls /\ UpdateViewCalled' /\ ~ZeroDisplay(LastUiCall'.io))
       => /\ \E n \in 1..Len(effects') :
               /\ effects'[n].op = "destroyRenderable"
               /\ \A m \in 1..(n - 1) : effects'[m].op \notin FrameOps
          /\ LastUiCall'.commands.CmdListsCount = 0
               => /\ ui_renderable' = NoRenderable
                  /\ Len(ui_renderable'.batches) = 0
                  /\ <<vertex_buffer_, index_buffer_, vertex_data_,
                        index_data_, material_instances_>>'
                       = <<vertex_buffer_, index_buffer_, vertex_data_,
                           index_data_, material_instances_>>
                  /\ \A n \in 1..Len(effects') :
                       effects'[n].op \in FrameOps
                         => effects'[n].op = "destroyRenderable"]_vars

\* A frame of two batches, then an empty frame: no renderable is left and
\* the buffers made for the first frame are still there.
C15_Witness ==
  /\ Len(ui_calls) = 2
  /\ ui_calls[1].op = "UpdateView" /\ ~ZeroDisplay(ui_calls[1].io)
  /\ ui_calls[1].commands = DrawData(<<Quad, Tri>>)
  /\ ui_calls[2].op = "UpdateView" /\ ~ZeroDisplay(ui_calls[2].io)
  /\ ui_calls[2].commands.CmdListsCount = 0
  /\ ui_renderable = NoRenderable
  /\ vertex_buffer_ = [id |-> 1, count |-> 7]
  /\ index_buffer_ = [id |-> 1, count |-> 9]

\* The calls of the run that were processed frames: UpdateView calls with a
\* display size other than zero and at least one command list.
IsFrame(call) ==
  /\ call.op = "UpdateView"
  /\ ~ZeroDisplay(call.io)
  /\ call.commands.CmdListsCount > 0
ProcessedFrames == {n \in 1..Len(ui_calls) : IsFrame(ui_calls[n])}

\* The largest total vertex / index count of the processed frames so far.
MaxTotalVtxCount ==
  MaxOf({ui_calls[n].commands.TotalVtxCount : n \in ProcessedFrames})
MaxTotalIdxCount ==
  MaxOf({ui_calls[n].commands.TotalIdxCount : n \in ProcessedFrames})

\* C16: after any sequence of calls there are no buffers if no frame was
\* processed yet, and otherwise the vertex buffer holds as many vertices as
\* the largest total vertex count of the processed frames and the index
\* buffer as many indices as their largest total index count; a capacity
\* never decreases, and in a processed frame each buffer is replaced exactly
\* when no buffer exists or the frame's own total exceeds its capacity,
\* whatever happens to the other buffer; no other call replaces a buffer.
C16_CapacityIsHighWaterMark ==
  /\ [](IF ProcessedFrames = {}
        THEN vertex_buffer_ = NoBuffer /\ index_buffer_ = NoBuffer
        ELSE /\ vertex_buffer_ # NoBuffer /\ index_buffer_ # NoBuffer
             /\ vertex_buffer_.count = MaxTotalVtxCount
             /\ index_buffer_.count = MaxTotalIdxCount)
  /\ [][/\ vertex_buffer_'.count >= vertex_buffer_.count
        /\ index_buffer_'.count >= index_buffer_.count
        /\ vertex_buffer_' # vertex_buffer_
             <=> /\ ui_calls' # ui_calls /\ IsFrame(LastUiCall')
                 /\ \/ vertex_buffer_ = NoBuffer
                    \/ LastUiCall'.commands.TotalVtxCount > vertex_buffer_.count
        /\ index_buffer_' # index_buffer_
             <=> /\ ui_calls' # ui_calls /\ IsFrame(LastUiCall')
                 /\ \/ index_buffer_ = NoBuffer
                    \/ LastUiCall'.commands.TotalIdxCount > index_buffer_.count]_vars

\* The second frame needs more vertices and fewer indices than the first:
\* the vertex buffer was replaced and the index buffer was not; the third
\* frame fits in both.
C16_Witness ==
  /\ Len(ui_calls) = 3
  /\ ProcessedFrames = {1, 2, 3}
  /\ ui_calls[1].commands = DrawData(<<Quad, Tri>>)
  /\ ui_calls[2].commands = DrawData(<<Big, Big>>)
  /\ ui_calls[3].commands = DrawData(<<Quad>>)
  /\ vertex_buffer_ = [id |-> 2, count |-> 2 * BigVtxSize]
  /\ index_buffer_ = [id |-> 1, count |-> 9]

\* The number of vertices / indices of the draw lists before list k (1-based).
VtxBefore(lists, k) == SumOver(SubSeq(lists, 1, k - 1), "verts")
IdxBefore(lists, k) == SumOver(SubSeq(lists, 1, k - 1), "inds")

\* What the latest call handed to setBufferAt (a number of vertices, taken
\* from the start of vertex_data_) and to setBuffer (the indices).
UploadedVertexCount ==
  IF Did("setBufferAt")
  THEN effects[CHOOSE n \in 1..Len(effects) : effects[n].op = "setBufferAt"].arg
  ELSE 0
UploadedIndices ==
  IF Did("setBuffer")
  THEN effects[CHOOSE n \in 1..Len(effects) : effects[n].op = "setBuffer"].arg
  ELSE <<>>

\* The positions of the uploaded vertex range that hold the vertices draw
\* list k (1-based) was copied to in the latest call.
OwnVertices(k) ==
  UNION {span.from .. (span.from + span.count - 1) :
           span \in {vertex_data_.spans[n] :
                      n \in {m \in 1..Len(vertex_data_.spans) :
                               vertex_data_.spans[m].list = k - 1}}}

\* C17: after a processed frame of K draw lists with Vk vertices and Ik
\* indices each, the uploaded vertex range has sum of Vk entries and the
\* uploaded index range sum of Ik entries; the stored index j of list k is
\* the list's index j plus the number of vertices of the lists before k
\* (nothing for the first list), lies in [0, sum of Vk) and is a position
\* list k's own vertices were copied to in this frame.
C17_IndicesReferToOwnVertices ==
  (UpdateViewCalled /\ IsFrame(LastUiCall)) =>
    LET lists == LastUiCall.commands.CmdLists
    IN /\ UploadedVertexCount = SumOver(lists, "verts")
       /\ Len(UploadedIndices) = SumOver(lists, "inds")
       /\ \A k \in 1..Len(lists) :
            \A j \in 1..Len(lists[k].IdxBuffer) :
              LET stored == UploadedIndices[IdxBefore(lists, k) + j]
              IN /\ stored = lists[k].IdxBuffer[j] + VtxBefore(lists, k)
                 /\ stored >= 0 /\ stored < SumOver(lists, "verts")
                 /\ stored \in OwnVertices(k)

(***************************************************************************)
(* The scissor of a batch, for clip rectangles inside and outside the     *)
(* framebuffer, under both conversions of out-of-range values.             *)
(***************************************************************************)
ClipFrames ==
  {DrawData(lists) : lists \in {<<Quad>>, <<Tri, Quad>>, <<Outside>>,
                                <<Inverted>>}}
ClipDisplays == {Display(200, 1, TRUE), Display(100, 2, TRUE)}

InitScissor ==
  \E cast \in FpCasts :
    HandlerConstructed(U64Zero) /\ UiConstructed(TRUE, cast) /\ NoApp /\ NoObjects /\ NoDemo

NextScissor ==
  /\ Len(ui_calls) < MaxScissorOps
  /\ UNCHANGED <<input_vars, app_vars, life_vars, demo_vars>>
  /\ \/ RebuildFontAtlas
     \/ \E commands \in ClipFrames, io \in ClipDisplays :
          UpdateView(commands, io)

SpecScissor == InitScissor /\ [][NextScissor]_vars

RECURSIVE AllCmds(_)
\* The commands of the draw lists in the order UpdateView visits them.
AllCmds(lists) ==
  IF lists = <<>> THEN <<>>
  ELSE Head(lists).CmdBuffer \o AllCmds(Tail(lists))

\* The commands that become batches: those without a user callback.
IsDraw(cmd) == ~cmd.UserCallback
DrawCalls(lists) == SelectSeq(AllCmds(lists), IsDraw)

\* The number v as a uint32_t value of the model (two 16-bit halves); no
\* uint32_t value is equal to it when v is negative.
AsUint32(v) == <<v % Uint16Range, v \div Uint16Range>>

\* The scissor the claim gives the clip rectangle (x1, y1, x2, y2) in a
\* framebuffer of height H.
FlippedScissor(clip_rect, H) ==
  [left   |-> AsUint32(clip_rect[1]),
   bottom |-> AsUint32(H - clip_rect[4]),
   width  |-> clip_rect[3] - clip_rect[1],
   height |-> clip_rect[4] - clip_rect[2]]

\* The clip rectangle starts at or right of the left edge, ends at or above
\* the bottom edge of a framebuffer of height H, and its extents are
\* uint16_t values.
Representable(clip_rect, H) ==
  /\ clip_rect[1] >= 0
  /\ H - clip_rect[4] >= 0
  /\ clip_rect[3] - clip_rect[1] \in 0..(Uint16Range - 1)
  /\ clip_rect[4] - clip_rect[2] \in 0..(Uint16Range - 1)

\* The framebuffer height of the latest call.
FramebufferHeight ==
  LastUiCall.io.DisplaySize[2] * LastUiCall.io.DisplayFramebufferScale[2]

\* The scissor last set on the material instance of batch b.
ScissorOfBatch(b) == material_instances_[ui_renderable.batches[b].material].scissor

\* The example of the claim: one quad, no texture, clip (0, 0, 100, 100),
\* display (200, 200), scale 1.
QuadFrame ==
  /\ UpdateViewCalled
  /\ LastUiCall.commands = DrawData(<<Quad>>)
  /\ LastUiCall.io = Display(200, 1, TRUE)
QuadBatch ==
  /\ ui_renderable.present
  /\ Len(ui_renderable.batches) = 1
  /\ material_instances_[ui_renderable.batches[1].material].albedo
       = <<"font_atlas_", font_atlas_>>
  /\ ScissorOfBatch(1) = [left |-> <<0, 0>>, bottom |-> <<100, 0>>,
                          width |-> 100, height |-> 100]
  /\ ui_renderable.batches[1].offset = 0
  /\ ui_renderable.batches[1].count = 6

\* C18 as stated: after a processed frame every draw call with clip
\* rectangle (x1, y1, x2, y2) has a batch whose scissor is left = x1,
\* bottom = H - y2, width = x2 - x1, height = y2 - y1, H being the display
\* height times the framebuffer scale; and the example frame yields the one
\* batch the claim describes.
C18_ScissorOfEveryClipRect ==
  (UpdateViewCalled /\ IsFrame(LastUiCall)) =>
    LET draws == DrawCalls(LastUiCall.commands.CmdLists)
    IN /\ Len(ui_renderable.batches) = Len(draws)
       /\ \A b \in 1..Len(draws) :
            ScissorOfBatch(b) = FlippedScissor(draws[b].ClipRect, FramebufferHeight)
       /\ QuadFrame => QuadBatch

\* C18, amended: the same for every draw call whose clip rectangle has a
\* left edge of at least 0, a bottom edge of at most H and extents from 0 to
\* 65535; and the example frame yields the one batch the claim describes.
C18_ScissorFlipsY ==
  (UpdateViewCalled /\ IsFrame(LastUiCall)) =>
    LET draws == DrawCalls(LastUiCall.commands.CmdLists)
    IN /\ Len(ui_renderable.batches) = Len(draws)
       /\ \A b \in 1..Len(draws) :
            Representable(draws[b].ClipRect, FramebufferHeight)
              => ScissorOfBatch(b)
                   = FlippedScissor(draws[b].ClipRect, FramebufferHeight)
       /\ QuadFrame => QuadBatch

\* The example frame was translated, after the font atlas was built.
C18_Witness ==
  /\ QuadFrame
  /\ QuadBatch
  /\ font_atlas_ # 0
  /\ Representable(Quad.CmdBuffer[1].ClipRect, FramebufferHeight)

(***************************************************************************)
(* App: Init, the frame protocol and destruction                           *)
(* (filament_glfw_imgui_impl.h).                                           *)
(***************************************************************************)

\* What an App call adds to the history: its argument (the value the
\* environment gives it), its result and the calls it made, in order.
AppCalled(op, arg, result, did) ==
  app_calls' = Append(app_calls, [op |-> op, arg |-> arg, result |-> result,
                                  did |-> did])

\* What App::Init() calls once its three checks have passed.
InitSteps ==
  <<"Engine::create", "createSwapChain", "createRenderer",
    "ImGui::CreateContext", "ImGui_ImplGlfw_InitForOther",
    "Material::Builder::build", "make_unique<Ui>", "make_unique<WithImGui>",
    "GlfwAttachInputCallbacksAndSetWindowUserPointer">>

\* What ~App() calls when there is an engine.
DestroySteps ==
  <<"ImGui_ImplGlfw_Shutdown", "input_ = {}", "ui_ = {}",
    "ImGui::DestroyContext", "destroy(ui_mat_)", "destroy(renderer_)",
    "destroy(swap_chain_)", "Engine::destroy">>

InitFails_IgnoresSwapChain(native_swap_chain) == app.engine_ \/ ~app.window_
\* The three checks of App::Init().
InitFails(native_swap_chain) ==
  app.engine_ \/ ~app.window_ \/ ~native_swap_chain

\* App::Init(); native_swap_chain is whether InitAndGetNativeSwapChain
\* returns a swap chain.
AppInit(native_swap_chain) ==
  /\ app_pc = "idle"
  /\ IF InitFails(native_swap_chain)
     THEN /\ AppCalled("Init", native_swap_chain, "false",
                       IF app.engine_ \/ ~app.window_
                       THEN <<"log">>
                       ELSE <<"InitAndGetNativeSwapChain", "log">>)
          /\ UNCHANGED <<app, imgui, ui_vars>>
     ELSE /\ AppCalled("Init", native_swap_chain, "true",
                       <<"InitAndGetNativeSwapChain">> \o InitSteps)
          /\ app' = [window_ |-> app.window_, engine_ |-> TRUE,
                     swap_chain_ |-> TRUE, renderer_ |-> TRUE,
                     ui_context_ |-> TRUE, ui_mat_ |-> TRUE, ui_ |-> TRUE,
                     input_ |-> TRUE]
          /\ imgui' = [fonts_built |-> FALSE, in_frame |-> FALSE, size |-> 0,
                       scale |-> 1]
          /\ ui_engine_' = TRUE
          /\ UNCHANGED <<font_atlas_, vertex_buffer_, index_buffer_,
                         material_instances_, vertex_data_, index_data_,
                         ui_renderable, fp_cast, effects, ui_calls>>
  /\ UNCHANGED <<app_pc, input_vars>>

\* App::Run(); should_close is glfwWindowShouldClose(window_).
AppRun(should_close) ==
  /\ app_pc = "idle"
  /\ IF ~app.engine_
     THEN AppCalled("Run", should_close, "false", <<>>)
     ELSE AppCalled("Run", should_close,
                    IF should_close THEN "false" ELSE "true",
                    <<"glfwWindowShouldClose">>)
  /\ UNCHANGED <<app, app_pc, imgui, input_vars, ui_vars>>

ClearedEvents_KeepsEvents ==
  /\ calls' = Append(calls, [op |-> "ClearEvents"])
  /\ UNCHANGED <<state_vars, start_index, child_calls>>
\* input_->ClearEvents() of a Handler<ToImGui>.
ClearedEvents ==
  /\ events' = <<>>
  /\ all_events' = <<>>
  /\ calls' = Append(calls, [op |-> "ClearEvents"])
  /\ UNCHANGED <<event_index, keys, all_keys, mod_keys, mouse_x, mouse_y,
                 mouse_buttons, start_index, child_calls>>

\* App::PollEvents() up to glfwPollEvents(), which delivers the callbacks.
PollEvents ==
  /\ app_pc = "idle"
  /\ IF ~app.engine_
     THEN /\ AppCalled("PollEvents", 0, "nullptr", <<>>)
          /\ UNCHANGED <<app_pc, input_vars>>
     ELSE /\ ClearedEvents
          /\ app_pc' = "polling"
          /\ UNCHANGED app_calls
  /\ UNCHANGED <<app, imgui, ui_vars>>

\* A callback GLFW delivers during glfwPollEvents().
Delivered ==
  /\ app_pc = "polling"
  /\ \/ Key({GLFW_KEY_A}, {GLFW_PRESS}, {0}, BOOLEAN)
     \/ CursorPos({<<10, 20>>}, {FALSE})

\* App::PollEvents() from the return of glfwPollEvents() on.
PollReturn ==
  /\ app_pc = "polling"
  /\ app_pc' = "idle"
  /\ AppCalled("PollEvents", 0, "&input_->state()",
               <<"ClearEvents", "glfwPollEvents", "UpdateNativeSwapChainSize">>)
  /\ UNCHANGED <<app, imgui, input_vars, ui_vars>>

\* filament_imgui::AddFont(...) by the client: the atlas is no longer built.
\* ImGui refuses it between NewFrame() and Render() (the atlas is locked).
AddFont ==
  /\ app_pc = "idle"
  /\ app.engine_
  /\ ~imgui.in_frame
  /\ imgui' = [imgui EXCEPT !.fonts_built = FALSE]
  /\ AppCalled("AddFont", 0, "font", <<"AddFontFromMemoryTTF">>)
  /\ UNCHANGED <<app, app_pc, input_vars, ui_vars>>

AtlasStale_Always == TRUE
\* !io.Fonts->IsBuilt()
AtlasStale == ~imgui.fonts_built

\* App::BeginUiFrame(); size and scale are what ImGui_ImplGlfw_NewFrame reads
\* from the window. CreateFontTexture builds the atlas
\* (fonts.GetTexDataAsRGBA32).
BeginUiFrame(size, scale) ==
  /\ app_pc = "idle"
  /\ IF ~app.engine_
     THEN /\ AppCalled("BeginUiFrame", <<size, scale>>, "void", <<>>)
          /\ UNCHANGED <<imgui, ui_vars>>
     ELSE /\ IF AtlasStale THEN RebuildFontAtlas ELSE UNCHANGED ui_vars
          /\ imgui' = [fonts_built |-> imgui.fonts_built \/ AtlasStale,
                       in_frame |-> TRUE, size |-> size, scale |-> scale]
          /\ AppCalled("BeginUiFrame", <<size, scale>>, "void",
                       (IF AtlasStale THEN <<"RebuildFontAtlas">> ELSE <<>>)
                       \o <<"ImGui_ImplGlfw_NewFrame", "ImGui::NewFrame">>)
  /\ UNCHANGED <<app, app_pc, input_vars>>

\* ImDrawData::ScaleClipRects(fb_scale)
ScaleClipRect(cmd, fb_scale) ==
  [cmd EXCEPT !.ClipRect = <<@[1] * fb_scale[1], @[2] * fb_scale[2],
                             @[3] * fb_scale[1], @[4] * fb_scale[2]>>]
ScaleCmdBuffer(draw_list, fb_scale) ==
  [draw_list EXCEPT !.CmdBuffer =
     [j \in 1..Len(@) |-> ScaleClipRect(@[j], fb_scale)]]
ScaleClipRects(commands, fb_scale) ==
  [commands EXCEPT !.CmdLists =
     [k \in 1..Len(@) |-> ScaleCmdBuffer(@[k], fb_scale)]]

\* App::EndUiFrame(); commands is the draw data ImGui::Render() produces.
\* With an engine it is called inside a frame only (ImGui::Render() needs a
\* NewFrame()).
EndUiFrame(commands) ==
  /\ app_pc = "idle"
  /\ IF ~app.engine_
     THEN /\ AppCalled("EndUiFrame", commands, "void", <<>>)
          /\ UNCHANGED <<imgui, ui_vars>>
     ELSE /\ imgui.in_frame
          /\ LET io == Display(imgui.size, imgui.scale, imgui.fonts_built)
             IN UpdateView(ScaleClipRects(commands, io.DisplayFramebufferScale),
                           io)
          /\ imgui' = [imgui EXCEPT !.in_frame = FALSE]
          /\ AppCalled("EndUiFrame", commands, "void",
                       <<"ImGui::Render", "ScaleClipRects", "UpdateView">>)
  /\ UNCHANGED <<app, app_pc, input_vars>>

\* App::BeginRender(); begin_frame is what renderer_->beginFrame returns.
BeginRender(begin_frame) ==
  /\ app_pc = "idle"
  /\ IF ~app.renderer_
     THEN AppCalled("BeginRender", begin_frame, "false", <<>>)
     ELSE AppCalled("BeginRender", begin_frame,
                    IF begin_frame THEN "true" ELSE "false", <<"beginFrame">>)
  /\ UNCHANGED <<app, app_pc, imgui, input_vars, ui_vars>>

\* App::~App()
AppDestroyed ==
  /\ app_pc = "idle"
  /\ app_pc' = "destroyed"
  /\ AppCalled("~App", 0, "void", IF ~app.engine_ THEN <<>> ELSE DestroySteps)
  /\ UNCHANGED <<app, imgui, input_vars, ui_vars>>

\* The frames ImGui::Render() produces and the windows
\* ImGui_ImplGlfw_NewFrame() reports in the runs of the App.
AppFrames == {DrawData(lists) : lists \in {<<>>, <<Quad>>}}
AppWindows == {<<0, 1>>, <<100, 2>>}

\* An App right after construction, with or without a window.
InitApp ==
  \E window \in BOOLEAN :
    HandlerConstructed(U64Zero) /\ NoUi /\ AppConstructed(window) /\ NoObjects /\ NoDemo

AppOps == Len(app_calls) + Len(calls)

NextApp ==
  /\ UNCHANGED <<life_vars, demo_vars>>
  /\ \/ AppOps < MaxAppOps /\ \E native \in BOOLEAN : AppInit(native)
     \/ AppOps < MaxAppOps /\ \E should_close \in BOOLEAN : AppRun(should_close)
     \/ AppOps < MaxAppOps /\ PollEvents
     \/ AppOps < MaxAppOps /\ Delivered
     \/ PollReturn
     \/ AppOps < MaxAppOps /\ AddFont
     \/ AppOps < MaxAppOps /\ \E w \in AppWindows : BeginUiFrame(w[1], w[2])
     \/ AppOps < MaxAppOps /\ \E commands \in AppFrames : EndUiFrame(commands)
     \/ AppOps < MaxAppOps /\ \E begin_frame \in BOOLEAN : BeginRender(begin_frame)
     \/ AppOps < MaxAppOps /\ AppDestroyed

SpecApp == InitApp /\ [][NextApp]_vars

LastAppCall == app_calls[Len(app_calls)]

\* The position of a call in the calls an App operation made, 0 if it did
\* not make it.
PositionIn(did, name) ==
  IF \E n \in 1..Len(did) : did[n] = name
  THEN CHOOSE n \in 1..Len(did) : did[n] = name
  ELSE 0

\* C19: every call of RebuildFontAtlas is made by BeginUiFrame, at a moment
\* when ImGui reports the font atlas as not built and no frame is begun, and
\* BeginUiFrame makes it before it begins the frame (NewFrame).
C19_RebuildOnlyBeforeNewFrame ==
  [][(ui_calls' # ui_calls /\ LastUiCall'.op = "RebuildFontAtlas")
       => /\ app_calls' # app_calls
          /\ LastAppCall'.op = "BeginUiFrame"
          /\ ~imgui.fonts_built
          /\ ~imgui.in_frame
          /\ PositionIn(LastAppCall'.did, "RebuildFontAtlas") > 0
          /\ PositionIn(LastAppCall'.did, "RebuildFontAtlas")
               < PositionIn(LastAppCall'.did, "ImGui_ImplGlfw_NewFrame")
          /\ PositionIn(LastAppCall'.did, "RebuildFontAtlas")
               < PositionIn(LastAppCall'.did, "ImGui::NewFrame")]_vars

\* The atlas was rebuilt by the BeginUiFrame of a frame, and the
\* BeginUiFrame of the next frame found it built.
C19_Witness ==
  /\ Len(app_calls) = 4
  /\ app_calls[2].op = "BeginUiFrame"
  /\ PositionIn(app_calls[2].did, "RebuildFontAtlas") = 1
  /\ app_calls[3].op = "EndUiFrame"
  /\ app_calls[4].op = "BeginUiFrame"
  /\ PositionIn(app_calls[4].did, "RebuildFontAtlas") = 0
  /\ font_atlas_ = 1
  /\ imgui.in_frame

\* An Init() of the run has returned true.
InitSucceeded ==
  \E n \in 1..Len(app_calls) :
    app_calls[n].op = "Init" /\ app_calls[n].result = "true"

\* The steps of Init() and of Ui that create something.
Creations == {InitSteps[n] : n \in 1..Len(InitSteps)}

\* C20: an Init() with a null window, with a null native swap chain or after
\* an Init() that succeeded returns false, creates nothing and leaves the
\* App, the Ui, the input handler and ImGui as they were; and as long as no
\* Init() has succeeded, Run() returns false, PollEvents() returns null,
\* BeginUiFrame() and EndUiFrame() do nothing, BeginRender() returns false
\* and the destructor releases nothing.
C20_NothingWithoutInit ==
  [][app_calls' # app_calls =>
       LET call == LastAppCall'
           untouched == UNCHANGED <<app, imgui, ui_vars, input_vars>>
       IN /\ (call.op = "Init"
                /\ (~app.window_ \/ ~call.arg \/ InitSucceeded))
               => /\ call.result = "false"
                  /\ \A n \in 1..Len(call.did) : call.did[n] \notin Creations
                  /\ untouched
          /\ (~InitSucceeded /\ call.op = "Run")
               => call.result = "false" /\ untouched
          /\ (~InitSucceeded /\ call.op = "PollEvents")
               => call.result = "nullptr" /\ call.did = <<>> /\ untouched
          /\ (~InitSucceeded /\ call.op \in {"BeginUiFrame", "EndUiFrame"})
               => call.did = <<>> /\ untouched
          /\ (~InitSucceeded /\ call.op = "BeginRender")
               => call.result = "false" /\ call.did = <<>> /\ untouched
          /\ (~InitSucceeded /\ call.op = "~App")
               => call.did = <<>> /\ untouched]_vars

\* An App with a window whose platform gives no native swap chain: Init()
\* returned false, and PollEvents, BeginRender and the destructor followed.
C20_Witness ==
  /\ app.window_
  /\ ~InitSucceeded
  /\ Len(app_calls) = 4
  /\ app_calls[1].op = "Init" /\ ~app_calls[1].arg
  /\ app_calls[1].result = "false"
  /\ app_calls[2].op = "PollEvents" /\ app_calls[2].result = "nullptr"
  /\ app_calls[3].op = "BeginRender" /\ app_calls[3].result = "false"
  /\ app_calls[4].op = "~App" /\ app_calls[4].did = <<>>
  /\ ~app.engine_ /\ ~ui_engine_

(***************************************************************************)
(* Polls: an App that is initialised and then polls, GLFW delivering key   *)
(* callbacks during glfwPollEvents().                                      *)
(***************************************************************************)
DeliveredKeys ==
  /\ app_pc = "polling"
  /\ Key({GLFW_KEY_A}, {GLFW_PRESS, GLFW_RELEASE}, {0}, BOOLEAN)

NextPoll ==
  /\ UNCHANGED <<life_vars, demo_vars>>
  /\ \/ AppOps < MaxPollOps /\ AppInit(TRUE)
     \/ AppOps < MaxPollOps /\ PollEvents
     \/ AppOps < MaxPollOps /\ DeliveredKeys
     \/ PollReturn

SpecPoll == InitApp /\ [][NextPoll]_vars

\* PollEvents() has just returned the input state.
PollReturned ==
  /\ app_pc = "idle"
  /\ Len(app_calls) > 0
  /\ LastAppCall.op = "PollEvents"
  /\ LastAppCall.result # "nullptr"

\* C21: when PollEvents() returns the input state, all_events holds one
\* event for each callback delivered during this poll, in arrival order and
\* with the callback's key, action and capture result, and nothing else;
\* events holds the uncaptured ones among them in the same order.
C21_PollReturnsThisPollsEvents ==
  PollReturned =>
    /\ LastClear > 0
    /\ Len(all_events) = Len(calls) - LastClear
    /\ \A i \in 1..Len(all_events) :
         /\ all_events[i].type = TypeOf(calls[LastClear + i])
         /\ all_events[i].key = calls[LastClear + i].key
         /\ all_events[i].action = calls[LastClear + i].action
         /\ all_events[i].child_wants_capture
              = calls[LastClear + i].child_result
    /\ events = SelectSeq(all_events, Uncaptured)

\* The second poll of the run returned: it delivered one release, not
\* captured, after a first poll that had delivered a captured press.
C21_Witness ==
  /\ PollReturned
  /\ Len(calls) = 4
  /\ calls[1].op = "ClearEvents" /\ calls[3].op = "ClearEvents"
  /\ calls[2].action = GLFW_PRESS /\ calls[2].child_result
  /\ calls[4].action = GLFW_RELEASE /\ ~calls[4].child_result
  /\ Len(all_events) = 1 /\ Len(events) = 1
  /\ all_events[1].action = GLFW_RELEASE

\* The press callbacks of `key` so far and the value ++event_index gave each.
PressIndexes(key) ==
  {IndexOfCall(i) : i \in {j \in DOMAIN calls : IsKeyCall(j, key, {GLFW_PRESS})}}

\* C22: every nonzero entry of keys and of all_keys is at least 1, at most
\* the current event_index, and is the value event_index had at an earlier
\* press callback for that same key; every other entry is 0.
C22_KeyEntriesAreEarlierPressIndexes ==
  \A table \in {keys, all_keys} :
    \A key \in DOMAIN table :
      /\ InTable(key)
      /\ U64Less(U64Zero, table[key])
      /\ ~U64Less(event_index, table[key])
      /\ table[key] \in PressIndexes(key)

\* A was pressed uncaptured, then D pressed captured, then A repeated: keys
\* holds A only, all_keys both, each with the index of its own press, below
\* the current event_index.
C22_Witness ==
  /\ Len(calls) = 3
  /\ IsKeyCall(1, GLFW_KEY_A, {GLFW_PRESS}) /\ ~calls[1].child_result
  /\ IsKeyCall(2, GLFW_KEY_D, {GLFW_PRESS}) /\ calls[2].child_result
  /\ IsKeyCall(3, GLFW_KEY_A, {GLFW_REPEAT})
  /\ start_index # U64Zero
  /\ DOMAIN keys = {GLFW_KEY_A}
  /\ keys[GLFW_KEY_A] = U64AddNat(start_index, 1)
  /\ all_keys[GLFW_KEY_A] = U64AddNat(start_index, 1)
  /\ all_keys[GLFW_KEY_D] = U64AddNat(start_index, 2)
  /\ event_index = U64AddNat(start_index, 3)

(***************************************************************************)
(* The modifier keys: both shift keys and a control key, pressed and       *)
(* released in any order, captured and not.                                *)
(***************************************************************************)
NextMods ==
  \/ Within(MaxModOps) /\ ClearEvents
  \/ Within(MaxModOps) /\ Key({GLFW_KEY_LEFT_SHIFT, GLFW_KEY_RIGHT_SHIFT,
                               GLFW_KEY_LEFT_CONTROL},
                              {GLFW_PRESS, GLFW_RELEASE}, {0}, BOOLEAN)

SpecMods == Init /\ [][NextMods]_vars

\* `key` is held: its most recent press has not been followed by its release.
Held(key) ==
  LET s == PressReleaseCalls(key, FALSE)
  IN  s # {} /\ calls[MaxOf(s)].action = GLFW_PRESS

ModifierKeys(bit) ==
  CASE bit = GLFW_MOD_SHIFT -> {GLFW_KEY_LEFT_SHIFT, GLFW_KEY_RIGHT_SHIFT}
    [] bit = GLFW_MOD_CONTROL -> {GLFW_KEY_LEFT_CONTROL, GLFW_KEY_RIGHT_CONTROL}
    [] bit = GLFW_MOD_ALT -> {GLFW_KEY_LEFT_ALT, GLFW_KEY_RIGHT_ALT}
    [] bit = GLFW_MOD_SUPER -> {GLFW_KEY_LEFT_SUPER, GLFW_KEY_RIGHT_SUPER}

\* C23: after any sequence of key callbacks the shift (control, alt, super)
\* bit of the modifier mask is set exactly when at least one of the left and
\* right shift (control, alt, super) keys is held.
C23_ModMaskIsPhysicalState ==
  \A bit \in {GLFW_MOD_SHIFT, GLFW_MOD_CONTROL, GLFW_MOD_ALT, GLFW_MOD_SUPER} :
    HasBits(mod_keys, bit) <=> \E key \in ModifierKeys(bit) : Held(key)

(***************************************************************************)
(* The masks on events: a shift key, both mouse buttons, scrolling and     *)
(* cursor moves, with GLFW passing a `mods` argument that agrees with the  *)
(* keys or not.                                                            *)
(***************************************************************************)
NextMasks ==
  \/ Within(MaxMaskOps) /\ ClearEvents
  \/ Within(MaxMaskOps) /\ Key({GLFW_KEY_LEFT_SHIFT},
                               {GLFW_PRESS, GLFW_RELEASE}, ModsArgs, {FALSE})
  \/ Within(MaxMaskOps) /\ MouseButton(MouseButtons, ButtonActions, ModsArgs,
                                       BOOLEAN)
  \/ Within(MaxMaskOps) /\ Scroll({FALSE})
  \/ Within(MaxMaskOps) /\ CursorPos({<<10, 20>>}, BOOLEAN)

SpecMasks == Init /\ [][NextMasks]_vars

\* The keys whose press sets and whose release clears `bit` of the mask.
KeysOfModBit(bit) ==
  CASE bit = GLFW_MOD_NUM_LOCK -> {GLFW_KEY_NUM_LOCK}
    [] bit = GLFW_MOD_CAPS_LOCK -> {GLFW_KEY_CAPS_LOCK}
    [] OTHER -> ModifierKeys(bit)

\* The latest press or release among the first n calls that is of one of
\* `keyset` is a press.
LastWasKeyPress(keyset, n) ==
  LET s == {i \in 1..n : /\ calls[i].op = "OnGlfwKey"
                         /\ calls[i].key \in keyset
                         /\ calls[i].action \in {GLFW_PRESS, GLFW_RELEASE}}
  IN  s # {} /\ calls[MaxOf(s)].action = GLFW_PRESS

LastWasButtonPress(button, n) ==
  LET s == {i \in 1..n : /\ calls[i].op = "OnGlfwMouseButton"
                         /\ calls[i].button = button
                         /\ calls[i].action \in {GLFW_PRESS, GLFW_RELEASE}}
  IN  s # {} /\ calls[MaxOf(s)].action = GLFW_PRESS

RECURSIVE SumOfSet(_)
SumOfSet(S) ==
  IF S = {} THEN 0
  ELSE LET x == CHOOSE y \in S : TRUE IN x + SumOfSet(S \ {x})

\* The modifier mask the handler tracks, as the first n calls of the run
\* (started with no key held) make it.
ModBits ==
  {GLFW_MOD_SHIFT, GLFW_MOD_CONTROL, GLFW_MOD_ALT, GLFW_MOD_SUPER,
   GLFW_MOD_CAPS_LOCK, GLFW_MOD_NUM_LOCK}
TrackedMods(n) ==
  SumOfSet({bit \in ModBits : LastWasKeyPress(KeysOfModBit(bit), n)})

\* The mask of the mouse buttons pressed and not yet released by the first n
\* calls.
TrackedButtons(n) ==
  SumOfSet({2^button : button \in {b \in MouseButtons : LastWasButtonPress(b, n)}})

\* C24: the mods of a Key, MouseButton, Scroll or CursorPos event is the
\* modifier mask the handler tracks from the key callbacks so far (the
\* event's own key press or release included), whatever the `mods` argument
\* of the callback; the buttons of a CursorPos event is the mask of the
\* mouse buttons pressed and not yet released by earlier callbacks, captured
\* or not.
C24_EventMasksAreTrackedState ==
  [][(calls' # calls /\ IsCallback(calls'[Len(calls')])
        /\ TypeOf(calls'[Len(calls')])
              \in {kKey, kMouseButton, kScroll, kCursorPos}) =>
       LET call == calls'[Len(calls')]
           e == all_events'[Len(all_events')]
       IN  /\ e.mods = mod_keys'
           /\ TypeOf(call) # kKey =>
                 /\ e.mods = mod_keys
                 /\ e.mods = TrackedMods(Len(calls))
           /\ TypeOf(call) = kKey =>
                 e.mods = SumOfSet({bit \in ModBits :
                            IF /\ call.key \in KeysOfModBit(bit)
                               /\ call.action \in {GLFW_PRESS, GLFW_RELEASE}
                              THEN call.action = GLFW_PRESS
                              ELSE LastWasKeyPress(KeysOfModBit(bit), Len(calls))})
           /\ TypeOf(call) = kCursorPos =>
                 /\ e.buttons = TrackedButtons(Len(calls))
                 /\ e.buttons = mouse_buttons]_vars

\* Left shift was pressed with mods = 0 passed, the right mouse button was
\* pressed with mods = 0 passed and captured, then the cursor moved: the
\* button event and the cursor event carry the shift bit, the cursor event
\* the right button.
C24_Witness ==
  /\ Len(calls) = 3 /\ Len(all_events) = 3
  /\ calls[1].op = "OnGlfwKey" /\ calls[1].action = GLFW_PRESS
  /\ calls[1].mods = 0 /\ all_events[1].mods = GLFW_MOD_SHIFT
  /\ calls[2].op = "OnGlfwMouseButton" /\ calls[2].action = GLFW_PRESS
  /\ calls[2].button = GLFW_MOUSE_BUTTON_RIGHT /\ calls[2].child_result
  /\ calls[2].mods = 0 /\ all_events[2].mods = GLFW_MOD_SHIFT
  /\ calls[3].op = "OnGlfwCursorPos"
  /\ all_events[3].mods = GLFW_MOD_SHIFT
  /\ all_events[3].buttons = 2

\* The positions in a call's engine operations of the operations `op`, and
\* of those on the resource `name`.
PositionsOf(ops, op) == {n \in 1..Len(ops) : ops[n].op = op}
PositionsOn(ops, op, name) ==
  {n \in PositionsOf(ops, op) : ops[n].arg[1] = name}
GpuResources == {"vertex_buffer_", "index_buffer_", "font_atlas_"}

\* C25: in every UpdateView and RebuildFontAtlas call, each destruction of
\* the vertex buffer, the index buffer or the font atlas comes after a fence
\* wait of the same call, and the replacement of a resource is created only
\* after the old one is destroyed; the call waits at most once, also when it
\* replaces both buffers, and a call that replaces no resource does not
\* wait.  A resource handle changes exactly when the call destroyed and
\* re-created it.
C25_FenceBeforeDestroy ==
  [][ui_calls' # ui_calls =>
       LET waits == PositionsOf(effects', "Fence::waitAndDestroy")
       IN  /\ Cardinality(waits) <= 1
           /\ (waits # {}) <=> (PositionsOf(effects', "destroy") # {})
           /\ \A name \in GpuResources :
                LET destroyed == PositionsOn(effects', "destroy", name)
                    created == PositionsOn(effects', "create", name)
                IN  /\ Cardinality(destroyed) <= 1
                    /\ Cardinality(destroyed) = Cardinality(created)
                    /\ \A d \in destroyed :
                         /\ \E w \in waits : w < d
                         /\ \A c \in created : d < c
           /\ (vertex_buffer_' # vertex_buffer_)
                <=> (PositionsOn(effects', "destroy", "vertex_buffer_") # {})
           /\ (index_buffer_' # index_buffer_)
                <=> (PositionsOn(effects', "destroy", "index_buffer_") # {})
           /\ (font_atlas_' # font_atlas_)
                <=> (PositionsOn(effects', "destroy", "font_atlas_") # {})]_vars

\* The second frame outgrew both buffers of the first: one wait, then each
\* buffer destroyed and created again.
C25_Witness ==
  /\ Len(ui_calls) = 2
  /\ ui_calls[1].op = "UpdateView" /\ ui_calls[2].op = "UpdateView"
  /\ vertex_buffer_.id = 2 /\ index_buffer_.id = 2
  /\ Cardinality(PositionsOf(effects, "Fence::waitAndDestroy")) = 1
  /\ Cardinality(PositionsOf(effects, "destroy")) = 2
  /\ Cardinality(PositionsOf(effects, "create")) = 2

\* The number of draw calls of a frame, callbacks included, summed over its
\* command lists.
TotalDrawCalls(commands) == Len(AllCmds(commands.CmdLists))

\* The pool positions the latest call created an instance for, and how many
\* instances it created.
CreatedPositions(ops) ==
  {ops[n].arg : n \in PositionsOf(ops, "createInstance")}

\* C26: an UpdateView call that processes command lists leaves the pool of
\* material instances with max(previous size, total number of draw calls of
\* the frame) instances; instances are created only for the positions
\* beyond the previous size, one each, so the earlier ones stay where they
\* are and are used again; the i-th batch of the frame uses the instance at
\* position i, so no two batches share one.  No call shrinks the pool, and
\* no other call changes its size or creates an instance.
C26_InstancePoolGrowsAndIsReused ==
  [][/\ Len(material_instances_') >= Len(material_instances_)
     /\ (ui_calls' # ui_calls /\ IsFrame(LastUiCall')) =>
          LET total == TotalDrawCalls(LastUiCall'.commands)
              batches == ui_renderable'.batches
          IN  /\ Len(material_instances_')
                   = IF total > Len(material_instances_)
                     THEN total ELSE Len(material_instances_)
              /\ CreatedPositions(effects')
                   = (Len(material_instances_) + 1)..Len(material_instances_')
              /\ Cardinality(PositionsOf(effects', "createInstance"))
                   = Len(material_instances_') - Len(material_instances_)
              /\ \A i \in 1..Len(batches) :
                   /\ batches[i].material = i
                   /\ batches[i].material <= Len(material_instances_')
              /\ \A i, j \in 1..Len(batches) :
                   i # j => batches[i].material # batches[j].material
              /\ \A n \in (Len(batches) + 1)..Len(material_instances_) :
                   material_instances_'[n] = material_instances_[n]
     /\ ~(ui_calls' # ui_calls /\ IsFrame(LastUiCall')) =>
          /\ Len(material_instances_') = Len(material_instances_)
          /\ Cardinality(PositionsOf(effects', "createInstance")) = 0]_vars

\* A frame of one draw call, a frame of three (one a callback), then the
\* frame of one again: the pool grew from one to three instances in the
\* second frame, which created two, and the third frame created none and
\* used the first again.
C26_Witness ==
  /\ Len(ui_calls) = 3
  /\ \A n \in 1..3 : IsFrame(ui_calls[n])
  /\ ui_calls[1].commands = DrawData(<<Quad>>)
  /\ ui_calls[2].commands = DrawData(<<Quad, Tri>>)
  /\ ui_calls[3].commands = DrawData(<<Quad>>)
  /\ Len(material_instances_) = 3
  /\ CreatedPositions(effects) = {}
  /\ Len(ui_renderable.batches) = 1
  /\ ui_renderable.batches[1].material = 1

(***************************************************************************)
(* Batches: frames whose lists hold several draw calls and callbacks,      *)
(* drawn with the font atlas built and not built.                          *)
(***************************************************************************)
Menu == [VtxSize |-> 4, IdxBuffer |-> <<0, 1, 2, 0, 2, 3>>,
         CmdBuffer |-> <<Callback(2), Draw(<<0, 0, 50, 50>>, 0, 0, 3),
                         Callback(3),
                         Draw(<<20, 20, 90, 90>>, UserTexture, 3, 3)>>]

BatchFrames ==
  {DrawData(lists) : lists \in {<<>>, <<Menu>>, <<Quad, Menu>>,
                                <<Tri, Menu, Quad>>}}
BatchDisplays == {Display(200, 1, TRUE), Display(200, 1, FALSE)}

NextBatches ==
  /\ Len(ui_calls) < MaxBatchOps
  /\ UNCHANGED <<input_vars, app_vars, life_vars, demo_vars>>
  /\ \/ RebuildFontAtlas
     \/ \E commands \in BatchFrames, io \in BatchDisplays :
          UpdateView(commands, io)

SpecBatches == InitUi /\ [][NextBatches]_vars

RECURSIVE TaggedCmds(_, _)
\* The commands of the draw lists from list k (1-based) on, in the order
\* UpdateView visits them, each with the number of its list.
TaggedCmds(lists, k) ==
  IF k > Len(lists) THEN <<>>
  ELSE [j \in 1..Len(lists[k].CmdBuffer) |->
          [list |-> k, cmd |-> lists[k].CmdBuffer[j]]]
       \o TaggedCmds(lists, k + 1)
IsTaggedDraw(t) == ~t.cmd.UserCallback
IsTaggedCallback(t) == t.cmd.UserCallback
IsInvocation(effect) == effect.op = "UserCallback"

\* C27: an UpdateView call that processes command lists invokes the
\* callback of each callback draw call once, before it returns, in command
\* order, and builds no batch for it; each other draw call becomes one
\* batch, in command order, whose index range starts at the draw call's
\* index offset plus the number of indices of the earlier lists and spans
\* its element count; so there are as many batches as draw calls without a
\* callback.  A call that processes no command list invokes no callback.
C27_CallbacksInvokedDrawCallsBatched ==
  UpdateViewCalled =>
    LET lists == LastUiCall.commands.CmdLists
        tagged == TaggedCmds(lists, 1)
        draws == SelectSeq(tagged, IsTaggedDraw)
        callbacks == SelectSeq(tagged, IsTaggedCallback)
        invoked == SelectSeq(effects, IsInvocation)
        batches == ui_renderable.batches
    IN  IF IsFrame(LastUiCall)
        THEN /\ Len(invoked) = Len(callbacks)
             /\ \A n \in 1..Len(invoked) :
                  invoked[n].arg = <<callbacks[n].list - 1, callbacks[n].cmd>>
             /\ \A n \in PositionsOf(effects, "UserCallback") :
                  \E b \in PositionsOf(effects, "build") : n < b
             /\ ui_renderable.present
             /\ Len(batches) = Len(draws)
             /\ Len(batches) = Len(tagged) - Len(callbacks)
             /\ \A n \in 1..Len(batches) :
                  /\ batches[n].offset
                       = draws[n].cmd.IdxOffset + IdxBefore(lists, draws[n].list)
                  /\ batches[n].count = draws[n].cmd.ElemCount
        ELSE invoked = <<>>

\* The frame of three lists: its three callbacks were invoked in order and
\* its four other draw calls are four batches; the second draw call of the
\* second list starts at its offset 3 plus the 3 indices of the first list.
C27_Witness ==
  /\ UpdateViewCalled /\ IsFrame(LastUiCall)
  /\ LastUiCall.commands = DrawData(<<Tri, Menu, Quad>>)
  /\ SelectSeq(effects, IsInvocation)
       = <<[op |-> "UserCallback", arg |-> <<0, Callback(1)>>],
           [op |-> "UserCallback", arg |-> <<1, Callback(2)>>],
           [op |-> "UserCallback", arg |-> <<1, Callback(3)>>]>>
  /\ Len(ui_renderable.batches) = 4
  /\ ui_renderable.batches[3].offset = 6
  /\ ui_renderable.batches[3].count = 3
  /\ ui_renderable.batches[4].offset = 9
  /\ ui_renderable.batches[4].count = 6

\* What a processed frame must leave, by the frame's commands and the state
\* before it alone (the state of the font atlas is not asked): the buffer
\* after the frame, and batch n (1-based) of the frame.
BufferAfter(buffer, demand) ==
  IF buffer = NoBuffer \/ buffer.count < demand
  THEN [id |-> buffer.id + 1, count |-> demand]
  ELSE buffer
BatchOf(tagged_draw, n, lists, vertex_buffer, index_buffer) ==
  [index         |-> n - 1,
   vertex_buffer |-> vertex_buffer.id,
   index_buffer  |-> index_buffer.id,
   offset        |-> tagged_draw.cmd.IdxOffset
                       + IdxBefore(lists, tagged_draw.list),
   count         |-> tagged_draw.cmd.ElemCount,
   blend_order   |-> n - 1,
   material      |-> n]
IsWarning(effect) == effect.op = "warning"

\* C28: in an UpdateView call that processes command lists each batch binds
\* the texture of its draw call, or the font atlas the Ui holds at the time
\* when the draw call names none.  When the font atlas of ImGui is not
\* built the call logs one warning and does nothing else differently: the
\* batches, the buffers and the uploads are what the commands and the
\* buffers before the call determine, as they are with a built atlas, which
\* logs no warning.
C28_AtlasFallbackAndWarningOnly ==
  [][(ui_calls' # ui_calls /\ IsFrame(LastUiCall')) =>
       LET commands == LastUiCall'.commands
           lists == commands.CmdLists
           draws == SelectSeq(TaggedCmds(lists, 1), IsTaggedDraw)
           batches == ui_renderable'.batches
       IN  /\ Len(SelectSeq(effects', IsWarning))
                = IF LastUiCall'.io.FontsBuilt THEN 0 ELSE 1
           /\ font_atlas_' = font_atlas_
           /\ vertex_buffer_' = BufferAfter(vertex_buffer_, commands.TotalVtxCount)
           /\ index_buffer_' = BufferAfter(index_buffer_, commands.TotalIdxCount)
           /\ ui_renderable'.present
           /\ Len(batches) = Len(draws)
           /\ \A n \in 1..Len(batches) :
                /\ batches[n] = BatchOf(draws[n], n, lists, vertex_buffer_',
                                        index_buffer_')
                /\ material_instances_'[batches[n].material].albedo
                     = IF draws[n].cmd.TexID # 0
                       THEN <<"TexID", draws[n].cmd.TexID>>
                       ELSE <<"font_atlas_", font_atlas_>>
           /\ UploadedVertexCount' = commands.TotalVtxCount
           /\ Len(UploadedIndices') = commands.TotalIdxCount
           /\ \A k \in 1..Len(lists) :
                \A j \in 1..Len(lists[k].IdxBuffer) :
                  UploadedIndices'[IdxBefore(lists, k) + j]
                    = lists[k].IdxBuffer[j] + VtxBefore(lists, k)]_vars

\* The font texture was rebuilt once, then a frame is drawn while ImGui's
\* atlas is not built: one warning, and the two batches of the list are
\* there, the first bound to the font texture the Ui holds, the second to
\* the draw call's texture, with both uploads made.
C28_Witness ==
  /\ Len(ui_calls) = 2
  /\ ui_calls[1].op = "RebuildFontAtlas"
  /\ IsFrame(ui_calls[2])
  /\ ui_calls[2].commands = DrawData(<<Menu>>)
  /\ ~ui_calls[2].io.FontsBuilt
  /\ Len(SelectSeq(effects, IsWarning)) = 1
  /\ Len(ui_renderable.batches) = 2
  /\ material_instances_[1].albedo = <<"font_atlas_", 1>>
  /\ material_instances_[2].albedo = <<"TexID", UserTexture>>
  /\ UploadedVertexCount = 4
  /\ Len(UploadedIndices) = 6

\* C29: the batches of a processed frame are numbered in the order of the
\* lists and, within a list, of its draw calls; the i-th batch (from 0) is
\* primitive i of the renderable and has blend order i, so the blend orders
\* of a frame of n batches are 0, 1, ..., n - 1, strictly increasing,
\* without gap or duplicate.
C29_BlendOrderIsBatchNumber ==
  (UpdateViewCalled /\ IsFrame(LastUiCall)) =>
    LET lists == LastUiCall.commands.CmdLists
        draws == SelectSeq(TaggedCmds(lists, 1), IsTaggedDraw)
        batches == ui_renderable.batches
    IN  /\ Len(batches) = Len(draws)
        /\ \A n \in 1..Len(batches) :
             /\ batches[n].index = n - 1
             /\ batches[n].blend_order = n - 1
             /\ batches[n].count = draws[n].cmd.ElemCount
             /\ batches[n].offset
                  = draws[n].cmd.IdxOffset + IdxBefore(lists, draws[n].list)
             /\ ScissorOfBatch(n)
                  = FlippedScissor(draws[n].cmd.ClipRect, FramebufferHeight)
        /\ \A m, n \in 1..Len(batches) :
             m < n => batches[m].blend_order < batches[n].blend_order
        /\ {batches[n].blend_order : n \in 1..Len(batches)}
             = 0..(Len(batches) - 1)

\* The frame of three lists with three callbacks among its commands: four
\* batches with the blend orders 0 to 3; the batch of the last list is the
\* last.
C29_Witness ==
  /\ UpdateViewCalled /\ IsFrame(LastUiCall)
  /\ LastUiCall.commands = DrawData(<<Tri, Menu, Quad>>)
  /\ [n \in 1..Len(ui_renderable.batches) |-> ui_renderable.batches[n].blend_order]
       = <<0, 1, 2, 3>>
  /\ ui_renderable.batches[4].count = 6
  /\ ui_renderable.batches[1].offset = 0

(***************************************************************************)
(* Lifetimes: App and Ui objects are constructed, initialised, moved into  *)
(* new objects, move-assigned onto each other and onto themselves, and     *)
(* destructed, in any order.  engine_side lists every engine and every     *)
(* resource created through an engine: its kind, its engine, who made it,  *)
(* how often it was destroyed and whether a destroy reached it after its   *)
(* engine was gone.  Handle 1 is an engine the program created itself for  *)
(* the Ui objects it makes; it stays alive.                                *)
(***************************************************************************)
Resource(kind, engine, made_by) ==
  [kind |-> kind, engine |-> engine, made_by |-> made_by, destroyed |-> 0,
   late |-> "no"]

\* Ui() = default, and the member initialisers of App.
UiDefault ==
  [life |-> "live", engine_ |-> 0, view_ |-> 0, scene_ |-> 0, camera_ |-> 0,
   ui_entity_ |-> 0, font_atlas_ |-> 0, vertex_buffer_ |-> 0,
   index_buffer_ |-> 0, material_instances_ |-> <<>>]
AppDefault ==
  [life |-> "live", window_ |-> FALSE, engine_ |-> 0, swap_chain_ |-> 0,
   renderer_ |-> 0, ui_mat_ |-> 0, ui_ |-> <<>>]

\* Ui::Ui(engine, material): the object and the engine side after it.
UiMade(side, engine, made_by) ==
  IF engine = 0
  THEN [ui |-> UiDefault, side |-> side]
  ELSE LET n == Len(side)
       IN [ui |-> [UiDefault EXCEPT !.engine_ = engine, !.view_ = n + 1,
                                    !.scene_ = n + 2, !.camera_ = n + 3,
                                    !.ui_entity_ = n + 4],
           side |-> side \o <<Resource("View", engine, made_by),
                              Resource("Scene", engine, made_by),
                              Resource("Camera", engine, made_by),
                              Resource("Entity", engine, made_by)>>]

\* engine->destroy(handle) for each of the handles, nullptr left out.  A
\* destroy through an engine that is already destroyed is undefined: it
\* may free the resource or not (freed).
Destroyed(side, handles, who, freed) ==
  [r \in 1..Len(side) |->
     IF r \in handles
     THEN IF side[side[r].engine].destroyed > 0
          THEN [side[r] EXCEPT !.destroyed = IF freed THEN @ + 1 ELSE @,
                               !.late = who]
          ELSE [side[r] EXCEPT !.destroyed = @ + 1]
     ELSE side[r]]

\* The handles a Ui destroys in its destructor.
UiHandles(ui) ==
  ({ui.scene_, ui.ui_entity_, ui.view_, ui.camera_, ui.vertex_buffer_,
    ui.index_buffer_, ui.font_atlas_}
   \cup {ui.material_instances_[n] : n \in 1..Len(ui.material_instances_)})
  \ {0}

\* Ui::~Ui()
UiDestructor(side, ui, who, freed) ==
  IF ui.engine_ = 0 THEN side
  ELSE Destroyed(side, UiHandles(ui), who, freed)

\* The unique_ptr ui_ is reset or destructed.
UiReset(side, ui_, who, freed) ==
  IF ui_ = <<>> THEN side ELSE UiDestructor(side, ui_[1], who, freed)

AppDestructor_EngineFirst(side, a, freed) ==
  IF a.engine_ = 0 THEN UiReset(side, a.ui_, "App", freed)
  ELSE LET gone == Destroyed(side, {a.engine_}, "App", freed)
           reset == UiReset(gone, a.ui_, "App", freed)
       IN Destroyed(reset, {a.ui_mat_, a.renderer_, a.swap_chain_} \ {0},
                    "App", freed)
\* App::~App(), then the destructors of its members.
AppDestructor(side, a, freed) ==
  IF a.engine_ = 0 THEN UiReset(side, a.ui_, "App", freed)
  ELSE LET reset == UiReset(side, a.ui_, "App", freed)
           mat == Destroyed(reset, {a.ui_mat_} \ {0}, "App", freed)
           renderer == Destroyed(mat, {a.renderer_} \ {0}, "App", freed)
           swap_chain == Destroyed(renderer, {a.swap_chain_} \ {0}, "App",
                                   freed)
       IN Destroyed(swap_chain, {a.engine_}, "App", freed)

\* Ui::operator=(Ui&&): every field is swapped.
UiMoveAssigned(dst, src) == [to |-> src, from |-> dst]

\* App::operator=(App&&): every field is swapped.
AppMoveAssigned(dst, src) == [to |-> src, from |-> dst]

\* The Ui objects a program can name: its own, and *app.ui() of an App.
UiRefs ==
  {<<"Ui", u>> : u \in UiSlots} \cup {<<"App", a>> : a \in AppSlots}
UiLive(ref) ==
  IF ref[1] = "Ui" THEN uis[ref[2]].life = "live"
  ELSE apps[ref[2]].life = "live" /\ apps[ref[2]].ui_ # <<>>
UiAt(ref) == IF ref[1] = "Ui" THEN uis[ref[2]] ELSE apps[ref[2]].ui_[1]
UisWith(f, ref, ui) == IF ref[1] = "Ui" THEN [f EXCEPT ![ref[2]] = ui] ELSE f
AppsWith(f, ref, ui) ==
  IF ref[1] = "App" THEN [f EXCEPT ![ref[2]].ui_ = <<ui>>] ELSE f

\* filament::Engine::create() by the program, for the Ui objects it makes.
ClientEngine == 1
InitLife ==
  /\ HandlerConstructed(U64Zero) /\ NoUi /\ NoApp /\ NoDemo
  /\ apps = [a \in AppSlots |-> NoObject]
  /\ uis = [u \in UiSlots |-> NoObject]
  /\ engine_side = <<Resource("Engine", ClientEngine, "client")>>

\* App app(window, ...)
AppMade(a) ==
  /\ apps[a].life = "none"
  /\ apps' = [apps EXCEPT ![a] = [AppDefault EXCEPT !.window_ = TRUE]]
  /\ UNCHANGED <<uis, engine_side>>

\* app.Init(), when it passes its checks.
LifeInit(a) ==
  LET n == Len(engine_side)
      engine == n + 1
      made == UiMade(engine_side
                       \o <<Resource("Engine", engine, a),
                            Resource("SwapChain", engine, a),
                            Resource("Renderer", engine, a),
                            Resource("Material", engine, a)>>,
                     engine, a)
  IN /\ apps[a].life = "live"
     /\ apps[a].engine_ = 0 /\ apps[a].window_
     /\ Len(made.side) <= MaxEngineSide
     /\ apps' = [apps EXCEPT ![a].engine_ = engine,
                             ![a].swap_chain_ = n + 2,
                             ![a].renderer_ = n + 3,
                             ![a].ui_mat_ = n + 4,
                             ![a].ui_ = <<made.ui>>]
     /\ engine_side' = made.side
     /\ UNCHANGED uis

\* App dst(std::move(src))
AppMoveMade(dst, src) ==
  LET moved == AppMoveAssigned(AppDefault, apps[src])
  IN /\ apps[dst].life = "none" /\ apps[src].life = "live"
     /\ apps' = [apps EXCEPT ![dst] = moved.to, ![src] = moved.from]
     /\ UNCHANGED <<uis, engine_side>>

\* dst = std::move(src), dst = std::move(dst) included.
AppMoveAssign(dst, src) ==
  LET moved == AppMoveAssigned(apps[dst], apps[src])
  IN /\ apps[dst].life = "live" /\ apps[src].life = "live"
     /\ apps' = [[apps EXCEPT ![dst] = moved.to] EXCEPT ![src] = moved.from]
     /\ UNCHANGED <<uis, engine_side>>

\* The App goes out of scope.
AppDestructed(a) ==
  /\ apps[a].life = "live"
  /\ \E freed \in BOOLEAN :
       engine_side' = AppDestructor(engine_side, apps[a], freed)
  /\ apps' = [apps EXCEPT ![a].life = "dead"]
  /\ UNCHANGED uis

\* Ui u(engine, material) with the program's engine, or with nullptr.
LifeUiMade(u, engine) ==
  LET made == UiMade(engine_side, engine, u)
  IN /\ uis[u].life = "none"
     /\ Len(made.side) <= MaxEngineSide
     /\ uis' = [uis EXCEPT ![u] = made.ui]
     /\ engine_side' = made.side
     /\ UNCHANGED apps

\* Ui dst(std::move(src)), src being a Ui of the program or *app.ui().
UiMoveMade(dst, src) ==
  LET moved == UiMoveAssigned(UiDefault, UiAt(src))
  IN /\ uis[dst].life = "none" /\ UiLive(src)
     /\ uis' = UisWith([uis EXCEPT ![dst] = moved.to], src, moved.from)
     /\ apps' = AppsWith(apps, src, moved.from)
     /\ UNCHANGED engine_side

\* dst = std::move(src) on two Ui objects, dst = std::move(dst) included.
UiMoveAssign(dst, src) ==
  LET moved == UiMoveAssigned(UiAt(dst), UiAt(src))
  IN /\ UiLive(dst) /\ UiLive(src)
     /\ uis' = UisWith(UisWith(uis, dst, moved.to), src, moved.from)
     /\ apps' = AppsWith(AppsWith(apps, dst, moved.to), src, moved.from)
     /\ UNCHANGED engine_side

\* The program's Ui goes out of scope.
UiDestructed(u) ==
  /\ uis[u].life = "live"
  /\ \E freed \in BOOLEAN :
       engine_side' = UiDestructor(engine_side, uis[u], "client", freed)
  /\ uis' = [uis EXCEPT ![u].life = "dead"]
  /\ UNCHANGED apps

\* ui.RebuildFontAtlas(fonts) on a Ui whose engine is alive; a run makes at
\* most MaxAtlases textures.
LifeRebuildFontAtlas(ref) ==
  LET ui == UiAt(ref)
      n == Len(engine_side)
      rebuilt == [ui EXCEPT !.font_atlas_ = n + 1]
  IN /\ UiLive(ref)
     /\ ui.engine_ # 0
     /\ engine_side[ui.engine_].destroyed = 0
     /\ n < MaxEngineSide
     /\ Cardinality({r \in 1..n : engine_side[r].kind = "Texture"})
          < MaxAtlases
     /\ engine_side' =
          Destroyed(engine_side, {ui.font_atlas_} \ {0}, "Ui", TRUE)
          \o <<Resource("Texture", ui.engine_, ref[2])>>
     /\ uis' = UisWith(uis, ref, rebuilt)
     /\ apps' = AppsWith(apps, ref, rebuilt)

\* The first ui.UpdateView(commands, io) of a Ui whose engine is alive, with
\* a frame of one draw call: both buffers and one material instance are
\* created.
LifeFirstFrame(ref) ==
  LET ui == UiAt(ref)
      n == Len(engine_side)
      drawn == [ui EXCEPT !.vertex_buffer_ = n + 1, !.index_buffer_ = n + 2,
                          !.material_instances_ = <<n + 3>>]
  IN /\ UiLive(ref)
     /\ ui.engine_ # 0
     /\ engine_side[ui.engine_].destroyed = 0
     /\ ui.vertex_buffer_ = 0
     /\ n + 3 <= MaxEngineSide
     /\ engine_side' =
          engine_side \o <<Resource("VertexBuffer", ui.engine_, ref[2]),
                           Resource("IndexBuffer", ui.engine_, ref[2]),
                           Resource("MaterialInstance", ui.engine_, ref[2])>>
     /\ uis' = UisWith(uis, ref, drawn)
     /\ apps' = AppsWith(apps, ref, drawn)

NextLife ==
  /\ UNCHANGED <<input_vars, ui_vars, app_vars, demo_vars>>
  /\ \/ \E a \in AppSlots : AppMade(a)
     \/ \E a \in AppSlots : LifeInit(a)
     \/ \E dst, src \in AppSlots : AppMoveMade(dst, src)
     \/ \E dst, src \in AppSlots : AppMoveAssign(dst, src)
     \/ \E a \in AppSlots : AppDestructed(a)
     \/ \E u \in UiSlots, engine \in {0, ClientEngine} : LifeUiMade(u, engine)
     \/ \E dst \in UiSlots, src \in UiRefs : UiMoveMade(dst, src)
     \/ \E dst, src \in UiRefs : UiMoveAssign(dst, src)
     \/ \E u \in UiSlots : UiDestructed(u)
     \/ \E ref \in UiRefs : LifeRebuildFontAtlas(ref)
     \/ \E ref \in UiRefs : LifeFirstFrame(ref)

SpecLife == InitLife /\ [][NextLife]_vars

\* The places where a live object holds handle r as its own: the fields of
\* a live App and of the Ui it holds, and the fields of a live Ui of the
\* program.  (Ui::engine_ is a borrowed pointer, not a holding.)
FieldsOfUi(ui, r) ==
  {<<f>> : f \in {g \in {"view_", "scene_", "camera_", "ui_entity_",
                          "font_atlas_", "vertex_buffer_", "index_buffer_"} :
                     ui[g] = r}}
  \cup {<<"material_instances_", n>> :
          n \in {m \in 1..Len(ui.material_instances_) :
                   ui.material_instances_[m] = r}}
Holders(r) ==
  UNION {{<<"App", a, f>> :
            f \in {g \in {"engine_", "swap_chain_", "renderer_", "ui_mat_"} :
                     apps[a][g] = r}}
         \cup (IF apps[a].ui_ = <<>> THEN {}
               ELSE {<<"App::ui_", a>> \o f : f \in FieldsOfUi(apps[a].ui_[1], r)})
           : a \in {b \in AppSlots : apps[b].life = "live"}}
  \cup UNION {{<<"Ui", u>> \o f : f \in FieldsOfUi(uis[u], r)}
                : u \in {v \in UiSlots : uis[v].life = "live"}}

\* The resources the objects made (the program's own engine is not one).
MadeByObjects == {r \in 1..Len(engine_side) : engine_side[r].made_by # "client"}

\* Every resource that is neither destroyed nor lost is held in exactly one
\* place, and the others in none.
HeldByExactlyOne ==
  \A r \in MadeByObjects :
    Cardinality(Holders(r))
      = IF engine_side[r].destroyed = 0 /\ engine_side[r].late = "no"
        THEN 1 ELSE 0
DestroyedAtMostOnce == \A r \in MadeByObjects : engine_side[r].destroyed <= 1
DestroyedBeforeEngine == \A r \in MadeByObjects : engine_side[r].late = "no"

\* Every live Ui that has an engine has one that is not destroyed.
EveryUiHasItsEngine ==
  \A ref \in UiRefs :
    UiLive(ref) =>
      \/ UiAt(ref).engine_ = 0
      \/ engine_side[UiAt(ref).engine_].destroyed = 0

\* C30 as stated: across any sequence of constructions, moves, move
\* assignments and destructions of Ui and App objects every engine-side
\* resource is held by exactly one live object until it is destroyed, is
\* destroyed once and not more, and is never destroyed after its engine.
C30_EveryResourceOwnedOnceAndFreedInTime ==
  HeldByExactlyOne /\ DestroyedAtMostOnce /\ DestroyedBeforeEngine

\* C30 with its condition: across any such sequence every engine-side
\* resource is held by exactly one live object until it is destroyed or a
\* destroy reaches it after its engine, and none is destroyed twice; and a
\* step taken while every live Ui still has its engine destroys nothing
\* after its engine: an App destroys the Ui it holds, its material,
\* renderer and swap chain before its engine.  A resource is destroyed late
\* only when a Ui is destructed whose engine went with another object
\* before, which takes a Ui moved out of its App, or into another App.
C30_OwnedOnceAndFreedInTimeWhileUiHasEngine ==
  /\ [](HeldByExactlyOne /\ DestroyedAtMostOnce)
  /\ [][EveryUiHasItsEngine =>
         \A r \in 1..Len(engine_side) :
           engine_side'[r].late = engine_side[r].late]_vars

\* Both Apps were initialised, were assigned to each other and are
\* destructed; the Ui of the program took over the Ui that App "a" made and
\* is destructed too; every resource made was destroyed exactly once and
\* none late.
C30_Witness ==
  /\ \A a \in AppSlots : apps[a].life = "dead"
  /\ apps["b"].engine_ # 0 /\ engine_side[apps["b"].engine_].made_by = "a"
  /\ apps["a"].engine_ # 0 /\ engine_side[apps["a"].engine_].made_by = "b"
  /\ uis["u"].life = "dead" /\ uis["u"].view_ # 0
  /\ engine_side[uis["u"].view_].made_by = "a"
  /\ \A r \in MadeByObjects :
       engine_side[r].destroyed = 1 /\ engine_side[r].late = "no"

(***************************************************************************)
(* Handler<NoOpHandler>: the default child.                                *)
(***************************************************************************)
\* What the callbacks of NoOpHandler return: false, each of them.
NoOpHandler == {FALSE}

\* Every kind of callback and ClearEvents, with the default child.
NextNoOp ==
  \/ Within(MaxNoOpOps) /\ ClearEvents
  \/ Within(MaxNoOpOps) /\ WindowFocus(FocusValues, NoOpHandler)
  \/ Within(MaxNoOpOps) /\ CursorEnter(EnterValues, NoOpHandler)
  \/ Within(MaxNoOpOps) /\ CursorPos(CursorPositions, NoOpHandler)
  \/ Within(MaxNoOpOps) /\ MouseButton({GLFW_MOUSE_BUTTON_LEFT}, ButtonActions,
                                       {0}, NoOpHandler)
  \/ Within(MaxNoOpOps) /\ Scroll(NoOpHandler)
  \/ Within(MaxNoOpOps) /\ Key(InputKeys, KeyActions, {0}, NoOpHandler)
  \/ Within(MaxNoOpOps) /\ Char(NoOpHandler)

SpecNoOp == Init /\ [][NextNoOp]_vars

\* C31: with a child that never captures, State.events equals
\* State.all_events element for element and State.keys equals State.all_keys
\* entry for entry, after any sequence of callbacks and ClearEvents calls.
C31_NoOpChildListsAndTablesAgree ==
  /\ events = all_events
  /\ keys = all_keys
  /\ \A key \in QueryKeys :
       PressedEventIndex(keys, key) = PressedEventIndex(all_keys, key)

\* After a ClearEvents, a key is held and two events are logged, the press
\* of the key among them.
C31_Witness ==
  /\ \E i \in DOMAIN calls : calls[i].op = "ClearEvents"
  /\ Len(all_events) = 2
  /\ \E i \in DOMAIN all_events :
       all_events[i].type = kKey /\ all_events[i].action = GLFW_PRESS
  /\ all_keys # KeyboardState

\* C32: in every reachable state a key that State.keys reports as pressed is
\* reported as pressed by State.all_keys too, and with the same press index.
C32_KeysPressedImpliesAllKeysPressed ==
  \A key \in QueryKeys :
    IsPressed(keys, key) =>
      /\ IsPressed(all_keys, key)
      /\ PressedEventIndex(all_keys, key) = PressedEventIndex(keys, key)

\* C33: Axis(a, b) follows the order of the two keys' full 64-bit recorded
\* press indices, values above 2^31 - 1 included: +1 when b's index is the
\* larger one, -1 when a's is; and IsPressed is true for every nonzero
\* recorded index.
C33_AxisComparesFullIndexes ==
  \A t \in Tables : \A a, b \in AxisKeys :
    LET index_a == PressedEventIndex(t, a)
        index_b == PressedEventIndex(t, b)
    IN  /\ U64Less(index_a, index_b) => Axis(t, a, b) = 1
        /\ U64Less(index_b, index_a) => Axis(t, a, b) = -1
        /\ index_a # U64Zero => IsPressed(t, a)

(***************************************************************************)
(* Callbacks whose action is neither a press nor a release.                *)
(***************************************************************************)
\* A key and a modifier key pressed, released and repeating, and a mouse
\* button called with each of the three actions, captured and not.
NextRepeat ==
  \/ Within(MaxRepeatOps) /\ ClearEvents
  \/ Within(MaxRepeatOps) /\ Key({GLFW_KEY_A, GLFW_KEY_LEFT_SHIFT}, KeyActions,
                                 {0}, BOOLEAN)
  \/ Within(MaxRepeatOps) /\ MouseButton({GLFW_MOUSE_BUTTON_LEFT}, KeyActions,
                                         {0}, BOOLEAN)

SpecRepeat == Init /\ [][NextRepeat]_vars

\* The step is a key or mouse-button callback with an action that is neither
\* GLFW_PRESS nor GLFW_RELEASE.
IsRepeatStep ==
  /\ Len(calls') = Len(calls) + 1
  /\ calls'[Len(calls')].op \in {"OnGlfwKey", "OnGlfwMouseButton"}
  /\ calls'[Len(calls')].action \notin {GLFW_PRESS, GLFW_RELEASE}

\* C34: a key or mouse-button callback whose action is neither press nor
\* release leaves both key-press tables, the modifier mask and the
\* mouse-button mask as they were, so every held key keeps the index of its
\* press and every Axis its value; the callback still increments event_index
\* and is logged: in all_events always, in events when it is not captured.
C34_RepeatChangesNoDeviceState ==
  [][IsRepeatStep =>
       /\ keys' = keys /\ all_keys' = all_keys
       /\ mod_keys' = mod_keys /\ mouse_buttons' = mouse_buttons
       /\ \A a, b \in {GLFW_KEY_A, GLFW_KEY_LEFT_SHIFT} :
            /\ Axis(keys', a, b) = Axis(keys, a, b)
            /\ Axis(all_keys', a, b) = Axis(all_keys, a, b)
       /\ event_index' = U64AddNat(event_index, 1)
       /\ Len(all_events') = Len(all_events) + 1
       /\ all_events'[Len(all_events')].action = calls'[Len(calls')].action
       /\ all_events'[Len(all_events')].type
            = IF calls'[Len(calls')].op = "OnGlfwKey" THEN kKey
              ELSE kMouseButton
       /\ events' = IF calls'[Len(calls')].child_result THEN events
                    ELSE Append(events, all_events'[Len(all_events')])]_vars

\* A was pressed, then repeated, then the mouse button was called with the
\* repeat action: A still holds the index of its press.
C34_Witness ==
  /\ Len(calls) = 3
  /\ IsKeyCall(1, GLFW_KEY_A, {GLFW_PRESS}) /\ ~calls[1].child_result
  /\ IsKeyCall(2, GLFW_KEY_A, {GLFW_REPEAT}) /\ ~calls[2].child_result
  /\ calls[3].op = "OnGlfwMouseButton" /\ calls[3].action = GLFW_REPEAT
  /\ keys = all_keys /\ keys[GLFW_KEY_A] = U64FromNat(1)
  /\ event_index = U64FromNat(3)
  /\ Len(all_events) = 3 /\ mouse_buttons = 0

(***************************************************************************)
(* Cursor deltas and capture.                                              *)
(***************************************************************************)
\* The sum of the offsets of the cursor-position events i+1 .. j of
\* all_events.
RECURSIVE SumOfOffsets(_, _)
SumOfOffsets(i, j) ==
  IF j <= i THEN <<0, 0>>
  ELSE LET rest == SumOfOffsets(i, j - 1)
       IN  IF all_events[j].type = kCursorPos
           THEN <<rest[1] + all_events[j].xoffset,
                  rest[2] + all_events[j].yoffset>>
           ELSE rest

\* No focus-gained callback (which makes the position unknown) lies between
\* the events i and j of all_events.
NoResetBetween(i, j) ==
  \A k \in i..j : ~(all_events[k].type = kFocus /\ all_events[k].focused # 0)

\* The uncaptured events of all_events, in order.
RECURSIVE UncapturedOf(_)
UncapturedOf(list) ==
  IF list = <<>> THEN <<>>
  ELSE LET front == UncapturedOf(SubSeq(list, 1, Len(list) - 1))
           last == list[Len(list)]
       IN  IF last.child_wants_capture THEN front ELSE Append(front, last)

\* C35: the delta of every cursor-position event is measured from the
\* position of the cursor-position callback just before it, captured or
\* not (no delta when the position was made unknown in between); so between
\* two resets of the position to unknown, the deltas of the cursor events
\* logged in all_events from one to a later one sum to the later position
\* minus the earlier one; and the uncaptured events carry these same
\* deltas, so the delta of an uncaptured event holds none of the movement
\* reported by the captured callbacks before the one preceding it.
C35_DeltaFromPrecedingCursorCallback ==
  /\ \A i \in DOMAIN all_events :
       all_events[i].type = kCursorPos =>
         LET n == CallOfEvent(i)
         IN  /\ calls[n].op = "OnGlfwCursorPos"
             /\ all_events[i].child_wants_capture = calls[n].child_result
             /\ Offsets(all_events[i]) =
                  IF UnknownBefore(n) THEN <<0, 0>>
                  ELSE <<calls[n].x - calls[CursorPosBefore(n)].x,
                         calls[n].y - calls[CursorPosBefore(n)].y>>
  /\ \A i, j \in DOMAIN all_events :
       (/\ i <= j
        /\ all_events[i].type = kCursorPos /\ all_events[j].type = kCursorPos
        /\ NoResetBetween(i, j)) =>
         SumOfOffsets(i, j) = <<all_events[j].x - all_events[i].x,
                                all_events[j].y - all_events[i].y>>
  /\ events = UncapturedOf(all_events)

\* Three cursor callbacks, the middle one captured: the third event reports
\* the movement since the captured callback, not since the first event,
\* whose position it has.
C35_Witness ==
  /\ Len(all_events) = 3 /\ Len(events) = 2
  /\ \A i \in 1..3 : all_events[i].type = kCursorPos
  /\ all_events[2].child_wants_capture
  /\ events[1].x = 10 /\ events[2].x = 10
  /\ Offsets(all_events[2]) = <<3, 4>>
  /\ Offsets(events[2]) = <<-3, -4>>

\* C36: the renderable built by UpdateView declares exactly as many
\* primitives as batches were given geometry, material and blend order in
\* that frame, frames with callback commands included.
C36_DeclaredPrimitivesAreTheBatches ==
  ui_renderable.present =>
    ui_renderable.count = Len(ui_renderable.batches)

\* C37: re-indexing is exact for every frame size: after a processed frame
\* the value stored in index_data_ for an index of draw list k is its
\* original value plus the number of vertices of all earlier lists, as an
\* integer without wraparound, frames of more than 65535 vertices included.
C37_ReindexingIsExact ==
  (UpdateViewCalled /\ IsFrame(LastUiCall)) =>
    LET lists == LastUiCall.commands.CmdLists
    IN \A k \in 1..Len(lists) :
         \A j \in 1..Len(lists[k].IdxBuffer) :
           index_data_[IdxBefore(lists, k) + j]
             = lists[k].IdxBuffer[j] + VtxBefore(lists, k)

\* The capacity of a GPU buffer: what it was created with, nothing for
\* nullptr.
Capacity(buffer) == IF buffer = NoBuffer THEN 0 ELSE buffer.count

\* C39: in every reachable state of a Ui the staging arrays vertex_data_ and
\* index_data_ have exactly the sizes of the capacities of the vertex and
\* the index buffer; in a processed frame every copy of vertices and every
\* stored index lies inside those arrays (each index of each list is found
\* at its place in index_data_), and what is handed to setBufferAt and
\* setBuffer is no larger than the buffer it goes to.  The frames are those
\* whose declared totals are the sums over their command lists.
C39_StagingArraysMatchBuffers ==
  /\ vertex_data_.size = Capacity(vertex_buffer_)
  /\ Len(index_data_) = Capacity(index_buffer_)
  /\ (UpdateViewCalled /\ IsFrame(LastUiCall)) =>
       LET lists == LastUiCall.commands.CmdLists
       IN /\ LastUiCall.commands.TotalVtxCount = SumOver(lists, "verts")
          /\ LastUiCall.commands.TotalIdxCount = SumOver(lists, "inds")
          /\ Len(vertex_data_.spans) = Len(lists)
          /\ \A n \in 1..Len(vertex_data_.spans) :
               LET span == vertex_data_.spans[n]
               IN /\ span.from = VtxBefore(lists, n)
                  /\ span.count = lists[n].VtxSize
                  /\ span.from >= 0
                  /\ span.from + span.count <= vertex_data_.size
          /\ \A k \in 1..Len(lists) :
               \A j \in 1..Len(lists[k].IdxBuffer) :
                 /\ IdxBefore(lists, k) + j \in DOMAIN index_data_
                 /\ index_data_[IdxBefore(lists, k) + j]
                      = (lists[k].IdxBuffer[j] + VtxBefore(lists, k))
                          % ImDrawIdxRange
          /\ UploadedVertexCount <= Capacity(vertex_buffer_)
          /\ Len(UploadedIndices) <= Capacity(index_buffer_)

\* A frame of two lists after a larger frame: both arrays keep the sizes of
\* the buffers of the first frame, the second frame fills a part of them.
C39_Witness ==
  /\ Len(ui_calls) = 2
  /\ IsFrame(ui_calls[1]) /\ ui_calls[1].commands = DrawData(<<Big, Big>>)
  /\ IsFrame(ui_calls[2]) /\ ui_calls[2].commands = DrawData(<<Tri>>)
  /\ vertex_data_.size = 2 * BigVtxSize /\ vertex_buffer_.id = 1
  /\ Len(index_data_) = 6 /\ index_buffer_.id = 1
  /\ UploadedVertexCount = 3 /\ Len(UploadedIndices) = 3

(***************************************************************************)
(* The demo: main() of demo.cpp from app.Init() to the end of its loop,    *)
(* one statement at a time.  demo_pc names the statement executed next.    *)
(***************************************************************************)

\* What a statement of main() adds to the history: what it was given, what
\* it returned, and how many Handler calls had been made by then.
DemoDid(op, arg, result) ==
  demo_calls' = Append(demo_calls, [op |-> op, arg |-> arg,
                                    result |-> result, at |-> Len(calls)])

\* if (!app.Init()) return 1;
DemoInit(native_swap_chain) ==
  /\ demo_pc = "Init"
  /\ AppInit(native_swap_chain)
  /\ demo_pc' = IF InitFails(native_swap_chain) THEN "return" ELSE "AddFont"
  /\ DemoDid("Init", native_swap_chain,
             IF InitFails(native_swap_chain) THEN "false" ELSE "true")
  /\ UNCHANGED render_skipped

\* demo.Init(): the scene, and two fonts added to the atlas.
DemoAddFont ==
  /\ demo_pc \in {"AddFont", "AddFont again"}
  /\ AddFont
  /\ demo_pc' = IF demo_pc = "AddFont" THEN "AddFont again" ELSE "Run"
  /\ DemoDid("AddFont", 0, "font")
  /\ UNCHANGED render_skipped

\* while (app.Run()), then the test of render_skipped.
DemoRun(should_close) ==
  /\ demo_pc = "Run"
  /\ AppRun(should_close)
  /\ LET run == app.engine_ /\ ~should_close
     IN  /\ demo_pc' = IF ~run THEN "exit"
                       ELSE IF render_skipped THEN "sleep" ELSE "PollEvents"
         /\ DemoDid("Run", should_close, IF run THEN "true" ELSE "false")
  /\ UNCHANGED render_skipped

\* std::this_thread::sleep_for(1ms)
DemoSleep ==
  /\ demo_pc = "sleep"
  /\ demo_pc' = "BeginRender"
  /\ DemoDid("sleep", 0, "void")
  /\ UNCHANGED <<render_skipped, input_vars, ui_vars, app_vars>>

\* app.PollEvents() up to glfwPollEvents().  Dereferencing the nullptr it
\* returns without an engine is undefined.
DemoPollEvents ==
  /\ demo_pc = "PollEvents"
  /\ PollEvents
  /\ IF app.engine_
     THEN UNCHANGED demo_vars
     ELSE /\ demo_pc' = "undefined"
          /\ DemoDid("PollEvents", 0, "nullptr")
          /\ UNCHANGED render_skipped

\* The callbacks GLFW delivers inside glfwPollEvents().
DemoDelivered ==
  /\ demo_pc = "PollEvents"
  /\ Delivered

\* const glfw_input::State& input = *app.PollEvents();
DemoPollReturn ==
  /\ demo_pc = "PollEvents"
  /\ PollReturn
  /\ demo_pc' = "ProcessInput"
  /\ DemoDid("PollEvents", 0, "&input_->state()")
  /\ UNCHANGED render_skipped

DemoProcessInput_Skipped ==
  /\ demo_pc = "ProcessInput"
  /\ demo_pc' = "BeginUiFrame"
  /\ UNCHANGED <<demo_calls, render_skipped, input_vars, ui_vars, app_vars>>
\* demo.ProcessInput(input): it reads the State it is handed, events first.
DemoProcessInput ==
  /\ demo_pc = "ProcessInput"
  /\ demo_pc' = "BeginUiFrame"
  /\ DemoDid("ProcessInput",
             [events |-> events, all_events |-> all_events], "void")
  /\ UNCHANGED <<render_skipped, input_vars, ui_vars, app_vars>>

\* app.BeginUiFrame(); the window of the demo, as
\* ImGui_ImplGlfw_NewFrame() reports it.
DemoBeginUiFrame ==
  /\ demo_pc = "BeginUiFrame"
  /\ \E w \in {<<100, 2>>} :
       /\ BeginUiFrame(w[1], w[2])
       /\ DemoDid("BeginUiFrame", w, "void")
  /\ demo_pc' = "UpdateUi"
  /\ UNCHANGED render_skipped

\* demo.UpdateUi(): ImGui widgets, between NewFrame() and Render().
DemoUpdateUi ==
  /\ demo_pc = "UpdateUi"
  /\ demo_pc' = "EndUiFrame"
  /\ DemoDid("UpdateUi", 0, "void")
  /\ UNCHANGED <<render_skipped, input_vars, ui_vars, app_vars>>

\* app.EndUiFrame();
DemoEndUiFrame ==
  /\ demo_pc = "EndUiFrame"
  /\ \E commands \in AppFrames :
       /\ EndUiFrame(commands)
       /\ DemoDid("EndUiFrame", commands, "void")
  /\ demo_pc' = "BeginRender"
  /\ UNCHANGED render_skipped

\* if (app.BeginRender()) { render_skipped = false; ...
\* } else { render_skipped = true; }
DemoBeginRender(begin_frame) ==
  /\ demo_pc = "BeginRender"
  /\ BeginRender(begin_frame)
  /\ LET begun == app.renderer_ /\ begin_frame
     IN  /\ render_skipped' = ~begun
         /\ demo_pc' = IF begun THEN "Render" ELSE "Run"
         /\ DemoDid("BeginRender", begin_frame,
                    IF begun THEN "true" ELSE "false")

\* demo.Render(*app.renderer());
\* app.renderer()->render(app.ui()->view()); app.renderer()->endFrame();
DemoRender ==
  /\ demo_pc = "Render"
  /\ demo_pc' = "Run"
  /\ demo_calls' = demo_calls
       \o <<[op |-> "Render", arg |-> 0, result |-> "void",
             at |-> Len(calls)],
            [op |-> "render(ui view)", arg |-> ui_renderable,
             result |-> "void", at |-> Len(calls)],
            [op |-> "endFrame", arg |-> 0, result |-> "void",
             at |-> Len(calls)]>>
  /\ UNCHANGED <<render_skipped, input_vars, ui_vars, app_vars>>

\* The end of main(): `app = {}` after the loop, or ~App() at `return 1`;
\* either way what the App holds is destroyed as ~App() does it.
DemoExit ==
  /\ demo_pc \in {"return", "exit"}
  /\ AppDestroyed
  /\ demo_pc' = "returned"
  /\ DemoDid(IF demo_pc = "exit" THEN "app = {}" ELSE "~App", 0, "void")
  /\ UNCHANGED render_skipped

\* main() of the demo before app.Init(): glfwCreateWindow() has returned a
\* window or NULL.
InitDemo ==
  \E window \in BOOLEAN :
    /\ HandlerConstructed(U64Zero) /\ NoUi /\ AppConstructed(window)
    /\ NoObjects /\ DemoStarted

\* The passes of the loop begun so far: the calls of app.Run().
DemoPasses == Cardinality({i \in DOMAIN demo_calls : demo_calls[i].op = "Run"})

NextDemo ==
  /\ UNCHANGED life_vars
  /\ \/ \E native \in BOOLEAN : DemoInit(native)
     \/ DemoAddFont
     \/ DemoPasses < MaxDemoPasses /\ \E should_close \in BOOLEAN :
                                        DemoRun(should_close)
     \/ DemoSleep
     \/ DemoPollEvents
     \/ Len(calls) < MaxDemoCalls /\ DemoDelivered
     \/ DemoPollReturn
     \/ DemoProcessInput
     \/ DemoBeginUiFrame
     \/ DemoUpdateUi
     \/ DemoEndUiFrame
     \/ \E begin_frame \in BOOLEAN : DemoBeginRender(begin_frame)
     \/ DemoRender
     \/ DemoExit

SpecDemo == InitDemo /\ [][NextDemo]_vars

\* The statements of main() recorded so far that are `op`.
DemoSteps(op) == {i \in DOMAIN demo_calls : demo_calls[i].op = op}

\* The last ClearEvents among the first n Handler calls, 0 for none.
ClearBefore(n) ==
  LET cl == {p \in 1..n : ~IsCallback(calls[p])}
  IN  IF cl = {} THEN 0 ELSE CHOOSE p \in cl : \A q \in cl : q <= p

\* The ProcessInput statements that were handed the event of callback q:
\* q lies between the last ClearEvents before the statement and the
\* statement.
HandedTo(q) ==
  {i \in DemoSteps("ProcessInput") :
     ClearBefore(demo_calls[i].at) < q /\ q <= demo_calls[i].at}

\* The UI frame statements and the renders of the UI view among the
\* statements after the i-th up to and including the j-th, in order.
IsUiStep(step) == step.op \in {"BeginUiFrame", "EndUiFrame", "render(ui view)"}
UiSteps(i, j) ==
  LET steps == SelectSeq(SubSeq(demo_calls, i + 1, j), IsUiStep)
  IN  [k \in 1..Len(steps) |-> steps[k].op]

\* The end of the pass that statement i belongs to: the statement before
\* the next app.Run(), or the last statement so far.
PassEnd(i) ==
  LET runs == {r \in DemoSteps("Run") : r > i}
  IN  IF runs = {} THEN Len(demo_calls)
      ELSE (CHOOSE r \in runs : \A s \in runs : r <= s) - 1
PassComplete(i) == \E r \in DemoSteps("Run") : r > i

\* The last poll of main() before statement r, 0 for none.
PollBefore(r) ==
  LET polls == {i \in DemoSteps("PollEvents") : i < r}
  IN  IF polls = {} THEN 0 ELSE CHOOSE i \in polls : \A j \in polls : j <= i

\* C38: in the demo main loop, whichever frames BeginRender() skips:
\* (a) ProcessInput is handed the State right after the poll returned it,
\* holding one event for each callback of that poll, in order, and in
\* `events` the uncaptured ones; (b) the event of every callback is handed
\* to at most one ProcessInput, and to exactly one before the next
\* ClearEvents; (c) every ClearEvents after the first directly follows a
\* ProcessInput of everything delivered before it, and callbacks arrive
\* inside a poll only; (d) a pass that polls runs BeginUiFrame then
\* EndUiFrame, once each, before any render of the UI view, and every render
\* of the UI view has exactly one such pair since the last poll.
C38_DemoLoopProcessesEveryPollOnce ==
  /\ demo_pc # "undefined"
  /\ \A i \in DemoSteps("ProcessInput") :
       LET handed == demo_calls[i].arg
           at == demo_calls[i].at
           clear == ClearBefore(at)
       IN  /\ i > 1 /\ demo_calls[i - 1].op = "PollEvents"
           /\ demo_calls[i - 1].at = at
           /\ clear > 0
           /\ Len(handed.all_events) = at - clear
           /\ \A k \in 1..Len(handed.all_events) :
                /\ handed.all_events[k].type = TypeOf(calls[clear + k])
                /\ handed.all_events[k].child_wants_capture
                     = calls[clear + k].child_result
           /\ handed.events = SelectSeq(handed.all_events, Uncaptured)
  /\ \A q \in DOMAIN calls :
       IsCallback(calls[q]) =>
         /\ Cardinality(HandedTo(q)) <= 1
         /\ ClearBefore(q) > 0
         /\ (\E p \in q + 1..Len(calls) : ~IsCallback(calls[p]))
              => Cardinality(HandedTo(q)) = 1
  /\ \A p \in DOMAIN calls :
       (~IsCallback(calls[p]) /\ p > 1) =>
         \E i \in DemoSteps("ProcessInput") : demo_calls[i].at = p - 1
  /\ \A i \in DemoSteps("PollEvents") :
       LET steps == UiSteps(i, PassEnd(i))
       IN  IF PassComplete(i)
           THEN steps \in {<<"BeginUiFrame", "EndUiFrame">>,
                           <<"BeginUiFrame", "EndUiFrame", "render(ui view)">>}
           ELSE steps \in {<<>>, <<"BeginUiFrame">>,
                           <<"BeginUiFrame", "EndUiFrame">>,
                           <<"BeginUiFrame", "EndUiFrame", "render(ui view)">>}
  /\ \A r \in DemoSteps("render(ui view)") :
       /\ PollBefore(r) > 0
       /\ UiSteps(PollBefore(r), r)
            = <<"BeginUiFrame", "EndUiFrame", "render(ui view)">>

\* A poll delivered two callbacks, one captured, and its frame was skipped
\* by BeginRender(); the next pass slept instead of polling and rendered the
\* UI view of that frame; the pass after polled again, clearing the two
\* events that ProcessInput had been handed.
C38_Witness ==
  /\ demo_pc = "ProcessInput"
  /\ Cardinality(DemoSteps("ProcessInput")) = 1
  /\ Cardinality(DemoSteps("sleep")) = 1
  /\ Cardinality(DemoSteps("render(ui view)")) = 1
  /\ \E b \in DemoSteps("BeginRender"), s \in DemoSteps("sleep"),
        r \in DemoSteps("render(ui view)") :
       /\ demo_calls[b].result = "false"
       /\ b < s /\ s < r
  /\ Len(calls) = 4
  /\ ~IsCallback(calls[1]) /\ ~IsCallback(calls[4])
  /\ calls[2].child_result /\ ~calls[3].child_result
  /\ \E i \in DemoSteps("ProcessInput") :
       /\ Len(demo_calls[i].arg.all_events) = 2
       /\ Len(demo_calls[i].arg.events) = 1
  /\ all_events = <<>>

====
